---- MODULE Spec2Model ----
(***************************************************************************)
(* ZeroInput: the suggestion / feedback loop of src/agent.                 *)
(*                                                                         *)
(* Python strings are TLA+ strings (TLC evaluates Len, \o and SubSeq on    *)
(* them), so the regular expressions and the string normalisation of the   *)
(* source are computed character by character.  Python values that may     *)
(* have several types (what json.load returns) are tagged records.         *)
(* A Python call that may raise returns a record with a field "raised".    *)
(* Wall-clock time is an integer number of milliseconds; a timestamp       *)
(* string "%Y-%m-%d %H:%M:%S" is the number of whole seconds.              *)
(***************************************************************************)
EXTENDS Integers, Sequences, FiniteSets, TLC

(***************************************************************************)
(* Strings                                                                 *)
(***************************************************************************)
Ch(s, i) == SubSeq(s, i, i)

LowerLetters == "abcdefghijklmnopqrstuvwxyz"
UpperLetters == "ABCDEFGHIJKLMNOPQRSTUVWXYZ"
DigitChars == "0123456789"

CharsOf(s) == {Ch(s, i) : i \in 1..Len(s)}

\* \s of the re module (the titles and texts of the model hold no other
\* whitespace than these)
Whitespace == {" ", "\t", "\n"}

\* \w of the re module on the characters that occur in the model
WordChars == CharsOf(LowerLetters) \cup CharsOf(UpperLetters) \cup CharsOf(DigitChars) \cup {"_"}

LowerMap == [i \in 1..26 |-> Ch(LowerLetters, i)]
UpperIndex == [c \in CharsOf(UpperLetters) |-> CHOOSE i \in 1..26 : Ch(UpperLetters, i) = c]

LowerChar(c) == IF c \in DOMAIN UpperIndex THEN LowerMap[UpperIndex[c]] ELSE c

RECURSIVE JoinRange(_, _, _)
\* pieces[lo] \o ... \o pieces[hi]
JoinRange(pieces, lo, hi) ==
    IF lo > hi THEN ""
    ELSE IF lo = hi THEN pieces[lo]
    ELSE JoinRange(pieces, lo, (lo + hi) \div 2) \o JoinRange(pieces, (lo + hi) \div 2 + 1, hi)

\* "".join(pieces)
Join(pieces) == JoinRange(pieces, 1, Len(pieces))

\* str.lower()
lower(s) == Join([i \in 1..Len(s) |-> LowerChar(Ch(s, i))])

\* s[i:] == p[:len(p)] at the 1-based position i
MatchAt(s, i, p) == i >= 1 /\ i + Len(p) - 1 <= Len(s) /\ SubSeq(s, i, i + Len(p) - 1) = p

\* p in s
Contains(s, p) == \E i \in 1..(Len(s) - Len(p) + 1) : MatchAt(s, i, p)

endswith(s, p) == Len(p) <= Len(s) /\ SubSeq(s, Len(s) - Len(p) + 1, Len(s)) = p

startswith(s, p) == MatchAt(s, 1, p)

\* str.strip()
strip(s) ==
    LET keep == {i \in 1..Len(s) : Ch(s, i) \notin Whitespace}
    IN  IF keep = {} THEN ""
        ELSE SubSeq(s, CHOOSE i \in keep : \A j \in keep : i <= j,
                       CHOOSE i \in keep : \A j \in keep : j <= i)

\* str.split()[0] when the string holds a word, else the string itself
\* (words[0] if words else window_title)
FirstWord(s) ==
    LET keep == {i \in 1..Len(s) : Ch(s, i) \notin Whitespace}
    IN  IF keep = {} THEN s
        ELSE LET b == CHOOSE i \in keep : \A j \in keep : i <= j
                 stops == {i \in b..Len(s) : Ch(s, i) \in Whitespace}
                 e == IF stops = {} THEN Len(s)
                      ELSE (CHOOSE i \in stops : \A j \in stops : i <= j) - 1
             IN  SubSeq(s, b, e)

Min(S) == CHOOSE x \in S : \A y \in S : x <= y
Max(S) == CHOOSE x \in S : \A y \in S : y <= x

(***************************************************************************)
(* extract_app_name (integration.py), extract_application_from_window      *)
(* (suggestion_engine.py) and extract_app_name (ml_predictor.py): the same *)
(* four patterns tried in order with re.search, first match wins.          *)
(***************************************************************************)
\* positions p of " - " with at least one character before and after it:
\* where r"(.+?) - .+" and r".+ - (.+)" can place their separator
DashPositions(s) == {p \in 2..(Len(s) - 3) : MatchAt(s, p, " - ")}

\* ends g of the group of r"(.+?)\s*[\[\(].*?[\]\)]" matched from the start
\* of the string: s[g+1..q-1] is whitespace, s[q] opens a bracket and a
\* closing bracket follows
BracketGroupEnds(s) ==
    {g \in 1..(Len(s) - 2) :
        \E q \in (g + 1)..(Len(s) - 1) :
            /\ Ch(s, q) \in {"[", "("}
            /\ \A k \in (g + 1)..(q - 1) : Ch(s, k) \in Whitespace
            /\ \E c \in (q + 1)..Len(s) : Ch(s, c) \in {"]", ")"}}

\* positions of a ":" followed by whitespace, with a character before it
ColonPositions(s) ==
    {p \in 2..(Len(s) - 1) : Ch(s, p) = ":" /\ Ch(s, p + 1) \in Whitespace}

\* the patterns with the second one tried first: the extraction property has
\* to tell it from FirstMatch
FirstMatchRightFirst(window_title, dashes, groups, colons) ==
    IF dashes # {}
    THEN strip(SubSeq(window_title, Max(dashes) + 3, Len(window_title)))
    ELSE IF groups # {}
    THEN strip(SubSeq(window_title, 1, Min(groups)))
    ELSE IF colons # {}
    THEN strip(SubSeq(window_title, 1, Min(colons) - 1))
    ELSE FirstWord(window_title)

\* the group of the first pattern that matches, given where the patterns
\* can match
FirstMatch(window_title, dashes, groups, colons) ==
    IF dashes # {}
    THEN strip(SubSeq(window_title, 1, Min(dashes) - 1))
    ELSE IF dashes # {}
    THEN strip(SubSeq(window_title, Max(dashes) + 3, Len(window_title)))
    ELSE IF groups # {}
    THEN strip(SubSeq(window_title, 1, Min(groups)))
    ELSE IF colons # {}
    THEN strip(SubSeq(window_title, 1, Min(colons) - 1))
    ELSE FirstWord(window_title)

extract_app_name(window_title) ==
    FirstMatch(window_title, DashPositions(window_title), BracketGroupEnds(window_title),
               ColonPositions(window_title))

\* the copy of suggestion_engine.py
extract_application_from_window(window_title) ==
    FirstMatch(window_title, DashPositions(window_title), BracketGroupEnds(window_title),
               ColonPositions(window_title))

\* the copy of ml_predictor.py
predictor_extract_app_name(window_title) ==
    FirstMatch(window_title, DashPositions(window_title), BracketGroupEnds(window_title),
               ColonPositions(window_title))

(***************************************************************************)
(* normalize_app_name (integration.py)                                     *)
(***************************************************************************)
extensions == <<".py", ".json", ".txt", ".html", ".js", ".exe", ".md">>

indicators == <<" - visual studio code", " - google chrome", " - firefox",
                " - microsoft edge", " - notepad", " - word">>

RECURSIVE StripSuffixes(_, _, _)
\* for suf in sufs: if name.endswith(suf): name = name[:-len(suf)]
StripSuffixes(name, sufs, i) ==
    IF i > Len(sufs) THEN name
    ELSE StripSuffixes(IF endswith(name, sufs[i])
                       THEN SubSeq(name, 1, Len(name) - Len(sufs[i]))
                       ELSE name, sufs, i + 1)

\* a normalizer that keeps the punctuation: the idempotence property has to
\* tell it from RemovePunctuation
KeepPunctuation(s) == s

\* re.sub(r'[^\w\s]', '', name)
RemovePunctuation(s) ==
    Join([i \in 1..Len(s) |-> IF Ch(s, i) \in WordChars \cup Whitespace THEN Ch(s, i) ELSE ""])

\* re.sub(r'\s+', ' ', name): a run of whitespace becomes one space
CollapseWhitespace(s) ==
    Join([i \in 1..Len(s) |->
            IF Ch(s, i) \notin Whitespace THEN Ch(s, i)
            ELSE IF i < Len(s) /\ Ch(s, i + 1) \in Whitespace THEN "" ELSE " "])

\* the argument is a Python value: None and "" are falsy
normalize_app_name(app_name) ==
    IF app_name = "" THEN ""
    ELSE strip(CollapseWhitespace(RemovePunctuation(
             StripSuffixes(StripSuffixes(lower(app_name), extensions, 1), indicators, 1))))

(***************************************************************************)
(* Python values                                                           *)
(***************************************************************************)
\* a value that should be a string: a str, None, a number, or a missing key
Str(s) == [t |-> "str", s |-> s]
NoneStr == [t |-> "none", s |-> ""]
IntStr == [t |-> "int", s |-> ""]
AbsentStr == [t |-> "absent", s |-> ""]

\* a value that should be a list of strings
List(l) == [t |-> "list", l |-> l]
NoneList == [t |-> "none", l |-> <<>>]
AbsentList == [t |-> "absent", l |-> <<>>]

\* a timestamp string "%Y-%m-%d %H:%M:%S" holding n whole seconds, or None
TS(n) == [t |-> "str", n |-> n]
NoneTS == [t |-> "none", n |-> 0]

\* truthiness of a value (bool(v)): None, "", [] and a missing key's .get()
\* are falsy, a number other than 0 is truthy
Truthy(v) ==
    CASE v.t = "str" -> v.s # ""
      [] v.t = "list" -> v.l # <<>>
      [] v.t = "int" -> TRUE
      [] OTHER -> FALSE

\* datetime.now().strftime("%Y-%m-%d %H:%M:%S"): the clock cut to the second
strftime(clock) == TS(clock \div 1000)

\* datetime.strptime(ts, "%Y-%m-%d %H:%M:%S") as a clock value
strptime(ts) == ts.n * 1000

\* one element of the list held by the memory store: a dict with the four
\* keys of log_to_memory (each possibly missing or of another type), or a
\* value that is no dict at all
Entry(ts, window, files, procs) ==
    [t |-> "dict", timestamp |-> ts, window |-> window,
     recent_files |-> files, top_processes |-> procs]
NonDictEntry ==
    [t |-> "int", timestamp |-> NoneTS, window |-> AbsentStr,
     recent_files |-> AbsentList, top_processes |-> AbsentList]

\* isinstance(entry, dict) and 'window' in entry
HasWindow(e) == e.t = "dict" /\ e.window.t # "absent"

(***************************************************************************)
(* Files on disk.  open(path, "w") truncates before json.dump writes, so a *)
(* write has three outcomes: done, refused at open (file untouched), or    *)
(* broken off after the truncation (file left without parseable JSON).     *)
(***************************************************************************)
WriteOutcomes == {"ok", "open_fails", "dump_fails"}

(***************************************************************************)
(* memory_store.py                                                         *)
(***************************************************************************)
\* zeroinput_memory.json: missing, not parseable, JSON that is no list, or
\* a list
MemFile(kind, entries) == [kind |-> kind, entries |-> entries]

\* a store that is read as empty whatever it holds: the append property
\* has to tell it from load_memory
load_memory_as_empty(file) == <<>>

\* load_memory(): the list of the store, [] when the store is missing, does
\* not parse (JSONDecodeError) or holds no list
load_memory(file) == IF file.kind = "list" THEN file.entries ELSE <<>>

\* save_memory(memory): not guarded, an OSError leaves the function
save_memory(file, memory, w) ==
    CASE w = "ok" -> [raised |-> FALSE, file |-> MemFile("list", memory)]
      [] w = "open_fails" -> [raised |-> TRUE, file |-> file]
      [] OTHER -> [raised |-> TRUE, file |-> MemFile("garbage", <<>>)]

\* a store that does not look at the process list: the validation property
\* has to tell it from log_to_memory
log_to_memory_unchecked_processes(file, window, recent_files, processes, clock, w) ==
    IF ~Truthy(window) \/ window.t # "str"
    THEN [raised |-> FALSE, ret |-> FALSE, file |-> file, wrote |-> FALSE]
    ELSE IF ~Truthy(recent_files) \/ recent_files.t # "list"
    THEN [raised |-> FALSE, ret |-> FALSE, file |-> file, wrote |-> FALSE]
    ELSE LET memory == Append(load_memory(file),
                              Entry(strftime(clock), window, recent_files, processes))
             saved == save_memory(file, memory, w)
         IN  [raised |-> saved.raised, ret |-> ~saved.raised,
              file |-> saved.file, wrote |-> TRUE]

\* log_to_memory(window, recent_files, processes) at the given clock
log_to_memory(file, window, recent_files, processes, clock, w) ==
    IF ~Truthy(window) \/ window.t # "str"
    THEN [raised |-> FALSE, ret |-> FALSE, file |-> file, wrote |-> FALSE]
    ELSE IF ~Truthy(recent_files) \/ recent_files.t # "list"
    THEN [raised |-> FALSE, ret |-> FALSE, file |-> file, wrote |-> FALSE]
    ELSE IF ~Truthy(processes) \/ processes.t # "list"
    THEN [raised |-> FALSE, ret |-> FALSE, file |-> file, wrote |-> FALSE]
    ELSE LET memory == Append(load_memory(file),
                              Entry(strftime(clock), window, recent_files, processes))
             saved == save_memory(file, memory, w)
         IN  [raised |-> saved.raised, ret |-> ~saved.raised,
              file |-> saved.file, wrote |-> TRUE]

\* validate_entry(window, recent_files, processes) of memory_utils.py: the
\* snapshot rule
validate_entry(window, recent_files, processes) ==
    /\ Truthy(window)
    /\ recent_files.t = "list" /\ recent_files.l # <<>>
    /\ processes.t = "list" /\ processes.l # <<>>

\* analyze_patterns(): entry.get(...) needs a dict, and the two inner loops
\* need iterables: anything else raises (AttributeError, TypeError)
analyze_patterns_raises(file) ==
    \E i \in 1..Len(load_memory(file)) :
        LET e == load_memory(file)[i]
        IN  \/ e.t # "dict"
            \/ e.recent_files.t \in {"none"}
            \/ e.top_processes.t \in {"none"}

(***************************************************************************)
(* clean_memory_file(file_path): the same text in integration.py and in    *)
(* memory_utils.py                                                         *)
(***************************************************************************)
\* the test of the filter loop: a dict with a truthy timestamp, a truthy
\* window and two lists (of any length)
KeptByCleaning(entry) ==
    /\ entry.t = "dict"
    /\ entry.timestamp.t = "str"
    /\ Truthy(entry.window)
    /\ entry.recent_files.t = "list"
    /\ entry.top_processes.t = "list"

\* clean_memory_file(file_path) with the outcome w of the write.  A store
\* that holds no list is iterated when it is an object or a string (no
\* element is a dict, so [] is written) and raises TypeError when it is a
\* number, a boolean or null: iterable says which.  Every exception ends in
\* "return False"; kept and removed are the two counts of the message.
clean_memory_file(file, iterable, w) ==
    LET failed(f) == [ret |-> FALSE, file |-> f, kept |-> 0, removed |-> 0]
        data == load_memory(file)
        valid_entries == SelectSeq(data, KeptByCleaning)
    IN  IF file.kind \in {"missing", "garbage"} THEN failed(file)
        ELSE IF file.kind = "nonlist" /\ ~iterable THEN failed(file)
        ELSE IF w = "open_fails" THEN failed(file)
        ELSE IF w = "dump_fails" THEN failed(MemFile("garbage", <<>>))
        ELSE [ret |-> TRUE, file |-> MemFile("list", valid_entries),
              kept |-> Len(valid_entries),
              removed |-> Len(data) - Len(valid_entries)]

(***************************************************************************)
(* integration.py: the feedback store and the pending suggestion           *)
(***************************************************************************)
\* the cleared _last_suggestion
NoSuggestion == [text |-> NoneStr, app_name |-> NoneStr, timestamp |-> NoneTS]

NoStats == [total |-> 0, followed |-> 0, ignored |-> 0]

\* zeroinput_feedback.json: missing, unreadable (json.load or open raises),
\* malformed (JSON without the "suggestions" list or the "stats" counters),
\* or the structure {suggestions, stats}
FeedbackFile(kind, suggestions, stats) ==
    [kind |-> kind, suggestions |-> suggestions, stats |-> stats]

\* the feedback window of record_suggestion_feedback, in seconds
FeedbackWindow == 300

\* load_feedback_data(): the parsed store; the initial structure, written
\* first, when the store is missing; the initial structure when anything
\* raised.  w is the outcome of the write of the initial structure.
load_feedback_data(file, w) ==
    CASE file.kind \in {"ok", "malformed"} -> [data |-> file, file |-> file]
      [] file.kind = "unreadable" ->
            [data |-> FeedbackFile("ok", <<>>, NoStats), file |-> file]
      [] OTHER ->
            [data |-> FeedbackFile("ok", <<>>, NoStats),
             file |-> CASE w = "ok" -> FeedbackFile("ok", <<>>, NoStats)
                        [] w = "open_fails" -> file
                        [] OTHER -> FeedbackFile("unreadable", <<>>, NoStats)]

\* save_feedback_data(data): every exception is caught and False returned
save_feedback_data(file, data, w) ==
    CASE w = "ok" -> [ret |-> TRUE, file |-> data]
      [] w = "open_fails" -> [ret |-> FALSE, file |-> file]
      [] OTHER -> [ret |-> FALSE, file |-> FeedbackFile("unreadable", <<>>, NoStats)]

\* sum(c1 == c2 for c1, c2 in zip(a, b))
common_chars(a, b) ==
    Cardinality({i \in 1..(IF Len(a) < Len(b) THEN Len(a) ELSE Len(b)) : Ch(a, i) = Ch(b, i)})

\* a match that accepts an agreement of exactly 80%: the matching property
\* has to tell it from FeedbackMatch
FeedbackMatchFrom80(normalized_current, normalized_suggested) ==
    \/ normalized_current = normalized_suggested
    \/ /\ normalized_suggested # "" /\ normalized_current # ""
       /\ \/ Contains(normalized_current, normalized_suggested)
          \/ Contains(normalized_suggested, normalized_current)
          \/ /\ Len(normalized_suggested) > 3 /\ Len(normalized_current) > 3
             /\ 10 * common_chars(normalized_suggested, normalized_current)
                  >= 8 * (IF Len(normalized_suggested) > Len(normalized_current)
                          THEN Len(normalized_suggested) ELSE Len(normalized_current))

\* the followed flag of record_suggestion_feedback for the normalized names
FeedbackMatch(normalized_current, normalized_suggested) ==
    \/ normalized_current = normalized_suggested
    \/ /\ normalized_suggested # "" /\ normalized_current # ""
       /\ \/ Contains(normalized_current, normalized_suggested)
          \/ Contains(normalized_suggested, normalized_current)
          \/ /\ Len(normalized_suggested) > 3 /\ Len(normalized_current) > 3
             \* common_chars / max_len > 0.8
             /\ 10 * common_chars(normalized_suggested, normalized_current)
                  > 8 * (IF Len(normalized_suggested) > Len(normalized_current)
                         THEN Len(normalized_suggested) ELSE Len(normalized_current))

\* a recorder that waits ten minutes instead of five: the timing property
\* of the feedback window has to tell it from TimedOut
TimedOutAfterTenMinutes(time_diff) == time_diff > 2 * FeedbackWindow * 1000

\* time_diff > 300
TimedOut(time_diff) == time_diff > FeedbackWindow * 1000

\* a recorder that does not count the ignored suggestions: the counter
\* property of the store has to tell it from RecordOutcome
RecordOutcomeIgnoredUncounted(last, file, current_app, followed, time_diff, loaded, ws) ==
    LET suggestion_record ==
            [timestamp |-> last.timestamp, suggestion_text |-> last.text.s,
             suggested_app |-> last.app_name.s, followed |-> followed,
             time_to_respond |-> time_diff, current_app |-> current_app]
        feedback_data ==
            FeedbackFile("ok", Append(loaded.data.suggestions, suggestion_record),
                [total |-> loaded.data.stats.total + 1,
                 followed |-> loaded.data.stats.followed + (IF followed THEN 1 ELSE 0),
                 ignored |-> loaded.data.stats.ignored])
    IN  IF TimedOut(time_diff)
        THEN [raised |-> FALSE, outcome |-> "timed_out", last |-> NoSuggestion, file |-> file]
        ELSE IF loaded.data.kind = "malformed"
        \* feedback_data["suggestions"] / ["stats"]["total"]: KeyError or
        \* TypeError, after load_feedback_data and before the reset
        THEN [raised |-> TRUE, outcome |-> "raised", last |-> last, file |-> loaded.file]
        ELSE [raised |-> FALSE,
              outcome |-> IF followed THEN "followed" ELSE "ignored",
              last |-> NoSuggestion,
              file |-> save_feedback_data(loaded.file, feedback_data, ws).file]

\* record_suggestion_feedback from the time check on: time_diff is measured
\* and the store loaded; ws is the outcome of the write of the updated data
RecordOutcome(last, file, current_app, followed, time_diff, loaded, ws) ==
    LET suggestion_record ==
            [timestamp |-> last.timestamp, suggestion_text |-> last.text.s,
             suggested_app |-> last.app_name.s, followed |-> followed,
             time_to_respond |-> time_diff, current_app |-> current_app]
        feedback_data ==
            FeedbackFile("ok", Append(loaded.data.suggestions, suggestion_record),
                [total |-> loaded.data.stats.total + 1,
                 followed |-> loaded.data.stats.followed + (IF followed THEN 1 ELSE 0),
                 ignored |-> loaded.data.stats.ignored + (IF followed THEN 0 ELSE 1)])
    IN  IF TimedOut(time_diff)
        THEN [raised |-> FALSE, outcome |-> "timed_out", last |-> NoSuggestion, file |-> file]
        ELSE IF loaded.data.kind = "malformed"
        \* feedback_data["suggestions"] / ["stats"]["total"]: KeyError or
        \* TypeError, after load_feedback_data and before the reset
        THEN [raised |-> TRUE, outcome |-> "raised", last |-> last, file |-> loaded.file]
        ELSE [raised |-> FALSE,
              outcome |-> IF followed THEN "followed" ELSE "ignored",
              last |-> NoSuggestion,
              file |-> save_feedback_data(loaded.file, feedback_data, ws).file]

\* record_suggestion_feedback with the current app extracted
RecordFor(last, file, current_app, clock, wl, ws) ==
    RecordOutcome(last, file, current_app,
                  FeedbackMatch(normalize_app_name(current_app),
                                normalize_app_name(last.app_name.s)),
                  clock - strptime(last.timestamp),
                  load_feedback_data(file, wl), ws)

\* record_suggestion_feedback(current_window) at the given clock.  last is
\* _last_suggestion, file the feedback store, wl and ws the outcomes of the
\* two writes (initial structure, updated data).  outcome names the branch.
record_suggestion_feedback(last, file, current_window, clock, wl, ws) ==
    IF ~Truthy(last.text) \/ last.timestamp.t = "none"
    THEN [raised |-> FALSE, outcome |-> "nothing", last |-> last, file |-> file]
    ELSE RecordFor(last, file, extract_app_name(current_window), clock, wl, ws)

(***************************************************************************)
(* Helpers for collections.Counter and random                              *)
(***************************************************************************)
\* the elements of a finite set of integers as an increasing sequence
Ordered(S) ==
    [k \in 1..Cardinality(S) |-> CHOOSE i \in S : Cardinality({j \in S : j < i}) = k - 1]

\* Counter.most_common(n) of a counter that was incremented once for each
\* element of incs, in that order: by decreasing count, equal counts in the
\* order of first insertion (sorted() is stable)
most_common(incs, n) ==
    LET keys == {incs[i] : i \in DOMAIN incs}
        cnt(k) == Cardinality({i \in DOMAIN incs : incs[i] = k})
        first(k) == Min({i \in DOMAIN incs : incs[i] = k})
        before(j, k) == cnt(j) > cnt(k) \/ (cnt(j) = cnt(k) /\ first(j) < first(k))
        rank(k) == Cardinality({j \in keys : before(j, k)}) + 1
        m == IF n < Cardinality(keys) THEN n ELSE Cardinality(keys)
    IN  [r \in 1..m |-> LET k == CHOOSE k \in keys : rank(k) = r IN <<k, cnt(k)>>]

\* random.choice(seq) when the generator yields the index r
choice(seq, r) == seq[(r % Len(seq)) + 1]

RECURSIVE Digits(_)
\* str(n) for n >= 0
Digits(n) == IF n < 10 THEN Ch(DigitChars, n + 1)
             ELSE Digits(n \div 10) \o Ch(DigitChars, (n % 10) + 1)

\* a / b rounded to the nearest integer, halves to the even one (round())
RoundDiv(a, b) ==
    LET fl == a \div b
        rem == a - fl * b
    IN  IF 2 * rem < b THEN fl
        ELSE IF 2 * rem > b THEN fl + 1
        ELSE IF fl % 2 = 0 THEN fl ELSE fl + 1

\* f"{v:.1f}" of a value given in tenths
FormatTenths(n) == Digits(n \div 10) \o "." \o Digits(n % 10)

RECURSIVE ReplaceFrom(_, _, _, _)
\* s[i-1:].replace(old, new): the occurrences are taken from left to right
ReplaceFrom(s, i, old, new) ==
    LET starts == {j \in i..Len(s) : MatchAt(s, j, old)}
    IN  IF starts = {} \/ old = "" THEN SubSeq(s, i, Len(s))
        ELSE SubSeq(s, i, Min(starts) - 1) \o new
             \o ReplaceFrom(s, Min(starts) + Len(old), old, new)

\* str.replace(old, new)
replace(s, old, new) == ReplaceFrom(s, 1, old, new)

\* os.path.basename (ntpath: both separators)
basename(path) ==
    LET seps == {i \in 1..Len(path) : Ch(path, i) \in {"/", "\\"}}
    IN  IF seps = {} THEN path ELSE SubSeq(path, Max(seps) + 1, Len(path))

\* seq[:n]
Take(seq, n) == SubSeq(seq, 1, IF n < Len(seq) THEN n ELSE Len(seq))

\* seq[-n:]
LastN(seq, n) == SubSeq(seq, IF Len(seq) > n THEN Len(seq) - n + 1 ELSE 1, Len(seq))

\* datetime.hour of a clock value
HourOf(clock) == (clock \div 3600000) % 24

\* the time category of suggestion_engine.py
time_category(hour) ==
    IF 5 <= hour /\ hour < 12 THEN "morning"
    ELSE IF 12 <= hour /\ hour < 17 THEN "afternoon"
    ELSE IF 17 <= hour /\ hour < 22 THEN "evening"
    ELSE "night"

(***************************************************************************)
(* suggestion_engine.py                                                    *)
(***************************************************************************)
APP_SUGGESTIONS ==
    "default" :>
     << "Try exploring the interface for hidden productivity tools.",
        "Consider organizing your workspace with Win+Arrow keys for better multitasking.",
        "Take a quick screenshot with Win+Shift+S to capture important information.",
        "Try using the clipboard history with Win+V to access previously copied items." >> @@
    "email" :>
     << "Manage your inbox with filters and quick replies.",
        "Try using Ctrl+R to reply to the current email quickly.",
        "Consider scheduling emails to send later for better communication timing.",
        "Try using email templates for frequently sent message types." >> @@
    "canva" :>
     << "Try adjusting your canvas tools for creative efficiency.",
        "Use the keyboard shortcut Ctrl+G to group elements for easier manipulation.",
        "Try Canva's magic resize to repurpose your design for different platforms.",
        "Use the alignment tools (select objects and look for the alignment options) to create polished designs.",
        "Consider using Canva's Brand Kit to maintain consistency across your designs." >> @@
    "code" :>
     << "Use keyboard shortcuts for fast code navigation.",
        "Try Ctrl+Shift+P to open Command Palette for quick access to VS Code commands.",
        "Consider using Live Share to collaborate with team members in real-time.",
        "Try Ctrl+F to search within the current file or Ctrl+Shift+F to search across all files.",
        "Use Alt+Z to toggle word wrap for better code readability." >> @@
    "document" :>
     << "Try utilizing track changes for better revision control.",
        "Use Ctrl+Shift+V to paste without formatting for cleaner documents.",
        "Try using styles (Ctrl+Alt+1,2,3) to maintain consistent document structure.",
        "Consider using the Navigation pane (View > Navigation) to move quickly through document sections." >> @@
    "presentation" :>
     << "Set up slide transitions to enhance your presentation.",
        "Try using Alt+N to create a new slide quickly.",
        "Consider using Presenter View to see your notes while presenting.",
        "Try F5 to start the presentation from the beginning or Shift+F5 from the current slide." >> @@
    "browser" :>
     << "Organize your tabs with groupings or pinned tabs.",
        "Try Ctrl+Shift+T to reopen recently closed tabs.",
        "Consider using bookmark folders to organize your research topics.",
        "Try Ctrl+Tab to quickly cycle through your open tabs.",
        "Use Ctrl+D to bookmark the current page for easy reference later." >> @@
    "video" :>
     << "Use editing shortcuts to trim your clips faster.",
        "Try J, K, and L keys for navigating video playback (back, pause, forward).",
        "Consider using YouTube's playback speed controls (shift+, and shift+.) for faster viewing.",
        "Try using the spacebar to quickly pause and resume playback." >>

\* extract_application_from_window(entry['window'])
AppOf(e) == extract_app_name(e.window.s)

\* analyze_user_patterns raises when an entry's window is no string
\* (re.search raises TypeError); an empty memory returns {} before that
analyze_user_patterns_raises(memory_data) ==
    \E i \in 1..Len(memory_data) :
        HasWindow(memory_data[i]) /\ memory_data[i].window.t # "str"

\* the indices i of the adjacent pairs (i-1, i) the sequence loop looks at
PairIndices(memory_data) ==
    {i \in 2..Len(memory_data) : HasWindow(memory_data[i]) /\ HasWindow(memory_data[i - 1])}

\* patterns['next_apps']
next_apps(memory_data, current_app) ==
    LET idx == Ordered({i \in PairIndices(memory_data) : AppOf(memory_data[i - 1]) = current_app})
    IN  most_common([k \in DOMAIN idx |-> AppOf(memory_data[idx[k]])], 3)

\* patterns['previous_apps']
previous_apps(memory_data, current_app) ==
    LET idx == Ordered({i \in PairIndices(memory_data) : AppOf(memory_data[i]) = current_app})
    IN  most_common([k \in DOMAIN idx |-> AppOf(memory_data[idx[k]  - 1])], 3)

RECURSIVE FilesWithApp(_, _, _)
\* the basenames counted into files_with_app, in counting order
FilesWithApp(memory_data, current_app, i) ==
    IF i > Len(memory_data) THEN <<>>
    ELSE LET e == memory_data[i]
             files == IF HasWindow(e) /\ AppOf(e) = current_app /\ e.recent_files.t = "list"
                      THEN SelectSeq(e.recent_files.l, LAMBDA f : f # "")
                      ELSE <<>>
         IN  [k \in DOMAIN files |-> basename(files[k])]
             \o FilesWithApp(memory_data, current_app, i + 1)

\* patterns['frequent_files_with_app']
frequent_files_with_app(memory_data, current_app) ==
    most_common(FilesWithApp(memory_data, current_app, 1), 3)

RECURSIVE AppDurations(_, _, _, _)
\* the (app, seconds) pairs appended to app_durations by the dwell-time
\* walk from entry i on, cur and start being its current_app and start_time
AppDurations(memory_data, i, cur, start) ==
    IF i > Len(memory_data) THEN <<>>
    ELSE LET e == memory_data[i]
         IN  IF HasWindow(e) /\ e.window.t = "str" /\ e.timestamp.t = "str"
                /\ Str(AppOf(e)) # cur
             THEN (IF Truthy(cur)
                   THEN << <<cur.s, e.timestamp.n - start>> >>
                   ELSE <<>>)
                  \o AppDurations(memory_data, i + 1, Str(AppOf(e)), e.timestamp.n)
             ELSE AppDurations(memory_data, i + 1, cur, start)

RECURSIVE SumSeq(_)
SumSeq(q) == IF q = <<>> THEN 0 ELSE Head(q) + SumSeq(Tail(q))

\* the durations, in seconds, the walk recorded for the app
DurationsOf(all, app) ==
    [k \in DOMAIN SelectSeq(all, LAMBDA d : d[1] = app) |->
        SelectSeq(all, LAMBDA d : d[1] = app)[k][2]]

\* patterns['avg_app_duration'][app]: minutes rounded to one decimal, in
\* tenths of a minute
AverageTenths(durations) == RoundDiv(SumSeq(durations), 6 * Len(durations))

\* the separator of the fourth workflow template: the source holds three
\* non-ASCII characters there, a letter (matched by \w) and two symbols
\* (matched by neither \w nor \s); "a", "-" and ">" stand for them
WorkflowArrow == " a-> "

\* generate_workflow_suggestion(patterns, current_app): None is ""
generate_workflow_suggestion(nexts, current_app, r) ==
    IF nexts = <<>> THEN ""
    ELSE IF nexts[1][2] < 3 THEN ""
    ELSE choice(<<
        "You often open " \o nexts[1][1] \o " after using " \o current_app
            \o ". Would you like to open it now?",
        "Based on your patterns, you typically switch to " \o nexts[1][1]
            \o " next. Ready to make the switch?",
        "I notice you frequently use " \o nexts[1][1] \o " after " \o current_app
            \o ". Consider opening it to continue your workflow.",
        "Your usual workflow: " \o current_app \o WorkflowArrow \o nexts[1][1]
            \o ". Want to continue this pattern?" >>, r)

\* x in seq
InSeq(x, seq) == \E i \in DOMAIN seq : seq[i] = x

\* the branch of the process loop of get_context_category a lowered process
\* name takes, "" when it takes none
ProcessCategory(process_lower) ==
    IF Contains(process_lower, "canva") THEN "canva"
    ELSE IF Contains(process_lower, "code") \/ Contains(process_lower, "visual studio") THEN "code"
    ELSE IF Contains(process_lower, "word") THEN "document"
    ELSE IF Contains(process_lower, "powerpoint") THEN "presentation"
    ELSE IF Contains(process_lower, "outlook") \/ Contains(process_lower, "thunderbird") THEN "email"
    ELSE IF Contains(process_lower, "chrome") \/ Contains(process_lower, "firefox")
            \/ Contains(process_lower, "edge") THEN "browser"
    ELSE IF Contains(process_lower, "premiere") \/ Contains(process_lower, "vegas")
            \/ Contains(process_lower, "video") THEN "video"
    ELSE ""

\* the category for the lowered window title and the categories of the
\* processes
CategoryOf(window_lower, lowered, categories) ==
    LET has(p) == Contains(window_lower, p)
        hits == {i \in DOMAIN categories : categories[i] # ""}
    IN  IF has("gmail") \/ has("mail.google") THEN "email"
        ELSE IF has("docs.google") THEN "document"
        ELSE IF has("slides.google") THEN "presentation"
        ELSE IF has("sheets.google") THEN "spreadsheet"
        ELSE IF has("youtube") THEN "video"
        ELSE IF has("canva") THEN "canva"
        ELSE IF has("visual studio code") \/ has("vs code") \/ InSeq("code.exe", lowered) THEN "code"
        ELSE IF has("word") \/ has("document") \/ has(".doc") THEN "document"
        ELSE IF has("powerpoint") \/ has("presentation") \/ has(".ppt") THEN "presentation"
        ELSE IF has("outlook") \/ has("mail") \/ has("gmail") THEN "email"
        ELSE IF has("chrome") \/ has("edge") \/ has("firefox") \/ has("browser") THEN "browser"
        ELSE IF has("premiere") \/ has("video") \/ has("youtube") THEN "video"
        ELSE IF hits # {} THEN categories[Min(hits)]
        ELSE "default"

\* get_context_category(window_title, processes)
get_context_category(window_title, processes) ==
    CategoryOf(lower(window_title),
               [i \in DOMAIN processes |-> lower(processes[i])],
               [i \in DOMAIN processes |-> ProcessCategory(lower(processes[i]))])

\* the insights list of generate_personalized_suggestion, given
\* patterns['next_apps'], patterns['frequent_files_with_app'] and the
\* durations recorded for the current app
InsightsFrom(nexts, files, durations, current_app, clock) ==
    (IF nexts # <<>>
     THEN << "Consider preparing your " \o nexts[1][1]
             \o " workflow, as you often switch to it after " \o current_app \o "." >>
     ELSE <<>>)
    \o (IF time_category(HourOf(clock)) \in {"evening", "night"}
        THEN << "Consider turning on night mode to reduce eye strain while working late." >>
        ELSE <<>>)
    \o (IF durations # <<>> /\ AverageTenths(durations) > 450
        THEN << "You typically spend " \o FormatTenths(AverageTenths(durations))
                \o " minutes in " \o current_app
                \o ". Consider setting a timer for breaks." >>
        ELSE <<>>)
    \o (IF files # <<>>
        THEN << "You often work with " \o files[1][1] \o " in " \o current_app
                \o ". Consider creating a shortcut for quick access." >>
        ELSE <<>>)

\* the insights list for a memory that is not empty
Insights(memory_data, current_app, nexts, clock) ==
    InsightsFrom(nexts,
                 IF memory_data = <<>> THEN <<>>
                 ELSE frequent_files_with_app(memory_data, current_app),
                 IF Len(memory_data) >= 2
                 THEN DurationsOf(AppDurations(memory_data, 1, NoneStr, 0), current_app)
                 ELSE <<>>,
                 current_app, clock)

\* the choice generate_personalized_suggestion makes among the workflow
\* suggestion, the insights, the category tips and the last resort
PersonalizedChoice(workflow_suggestion, insights, category, current_app, r) ==
    IF workflow_suggestion # ""
    THEN [raised |-> FALSE, text |-> workflow_suggestion]
    ELSE IF insights # <<>>
    THEN [raised |-> FALSE, text |-> choice(insights, r)]
    ELSE IF category \in DOMAIN APP_SUGGESTIONS
    THEN [raised |-> FALSE, text |-> choice(APP_SUGGESTIONS[category], r)]
    ELSE [raised |-> FALSE,
          text |-> "Try exploring the " \o current_app
                   \o " interface for features that could speed up your current workflow."]

\* generate_personalized_suggestion once patterns['next_apps'] is known
PersonalizedWith(memory_data, current_app, nexts, current_window, top_processes, clock, r) ==
    PersonalizedChoice(generate_workflow_suggestion(nexts, current_app, r),
                       Insights(memory_data, current_app, nexts, clock),
                       get_context_category(current_window, top_processes),
                       current_app, r)

\* generate_personalized_suggestion on the loaded memory
PersonalizedFor(memory_data, current_app, current_window, top_processes, clock, r) ==
    IF analyze_user_patterns_raises(memory_data)
    THEN [raised |-> TRUE, text |-> ""]
    ELSE PersonalizedWith(memory_data, current_app,
                          IF memory_data = <<>> THEN <<>>
                          ELSE next_apps(memory_data, current_app),
                          current_window, top_processes, clock, r)

\* generate_personalized_suggestion(current_window, recent_files,
\* top_processes) with memory_data = None: the memory is loaded from the
\* store; r is the index random.choice draws
generate_personalized_suggestion(current_window, recent_files, top_processes, file, clock, r) ==
    PersonalizedFor(load_memory(file), extract_app_name(current_window), current_window,
                    top_processes, clock, r)

\* get_smart_suggestion after generate_personalized_suggestion
SmartChoice(personalized, window, processes, r) ==
    IF personalized.raised \/ personalized.text # "" THEN personalized
    ELSE [raised |-> FALSE,
          text |-> choice(IF get_context_category(window, processes) \in DOMAIN APP_SUGGESTIONS
                          THEN APP_SUGGESTIONS[get_context_category(window, processes)]
                          ELSE APP_SUGGESTIONS["default"], r)]

\* get_smart_suggestion(window, files, processes)
get_smart_suggestion(window, files, processes, file, clock, r) ==
    SmartChoice(generate_personalized_suggestion(window, files, processes, file, clock, r),
                window, processes, r)

\* what 'ollama list' / 'ollama run phi' did: the state of the run and the
\* text it wrote to stdout
LLMRun(state, out, ms) == [state |-> state, out |-> out, ms |-> ms]

\* the checks of ask_phi on the stripped reply and on the reply cleaned of
\* the echoed prompt line
PhiChecks(state, response, cleaned) ==
    IF state # "answered" THEN [failed |-> TRUE, text |-> ""]
    ELSE IF response # "" /\ ~startswith(response, "Error:") /\ Len(response) > 10
    THEN IF \E p \in {"you are", "i am", "the user is", "this is"} :
                startswith(lower(cleaned), p)
         THEN [failed |-> TRUE, text |-> ""]
         ELSE [failed |-> FALSE, text |-> cleaned]
    ELSE [failed |-> TRUE, text |-> ""]

\* the reply ask_phi accepts, "" when it raises inside its try block
\* (timeout, ollama missing or not running, reply rejected)
PhiReply(llm) ==
    PhiChecks(llm.state, strip(llm.out),
              strip(replace(strip(llm.out), "Your specific, actionable suggestion:", "")))

\* ask_phi after the try block: the accepted reply, else the except branch
PhiOrFallback(reply, category, window, files, processes, file, clock, r) ==
    IF ~reply.failed
    THEN [raised |-> FALSE, text |-> reply.text]
    ELSE IF category # "default" /\ category \in DOMAIN APP_SUGGESTIONS
    THEN [raised |-> FALSE, text |-> choice(APP_SUGGESTIONS[category], r)]
    ELSE get_smart_suggestion(window, files, processes, file, clock, r)

\* ask_phi(prompt): the accepted reply, else the except branch, which reads
\* the context again and answers with a category tip or, for the default
\* category, with get_smart_suggestion on the first three files / processes
ask_phi(llm, window, files, processes, file, clock, r) ==
    PhiOrFallback(PhiReply(llm), get_context_category(window, Take(processes, 3)),
                  window, Take(files, 3), Take(processes, 3), file, clock, r)

\* build_prompt() raises when analyze_user_patterns does, on the last ten
\* entries of the memory
build_prompt_raises(file) == analyze_user_patterns_raises(LastN(load_memory(file), 10))

(***************************************************************************)
(* ml/ml_predictor.py                                                      *)
(***************************************************************************)
\* one element of prediction['all_predictions']; the confidence is a whole
\* percentage
Candidate(app_name, confidence) == [app_name |-> app_name, confidence |-> confidence]

\* the three templates of the confidence band of the candidate
SuggestionTemplates(top_app, confidence, current_app) ==
    IF confidence > 70
    THEN << "You almost always use " \o top_app \o " after " \o current_app
                \o ". Would you like to switch to it now?",
            "Based on your patterns, I'm very confident you'll want to use " \o top_app
                \o " next. Ready to switch?",
            "Your workflow typically continues with " \o top_app \o " (with "
                \o Digits(confidence) \o ".0% confidence). Open it now?" >>
    ELSE IF confidence > 50
    THEN << "You often use " \o top_app \o " after " \o current_app
                \o ". Would you like to open it?",
            "Based on your patterns, you might want to use " \o top_app
                \o " next. Need it open?",
            "I notice you frequently switch to " \o top_app
                \o " from here. Would that be helpful now?" >>
    ELSE << "You sometimes use " \o top_app \o " in this context. Would you like to open it?",
            "Would you like to open " \o top_app
                \o "? You've used it in similar situations before.",
            "Based on your past activity, " \o top_app
                \o " might be useful now. Want to switch to it?" >>

\* a repetition check that looks at the last two entries only: the
\* anti-repetition property has to tell it from ChosenCandidate
ChosenCandidateLastTwo(all_predictions, history) ==
    IF InSeq(all_predictions[1].app_name, LastN(history, 2))
    THEN IF Len(all_predictions) > 1
         THEN [found |-> TRUE, c |-> all_predictions[2]]
         ELSE [found |-> FALSE, c |-> all_predictions[1]]
    ELSE [found |-> TRUE, c |-> all_predictions[1]]

\* the candidate the repetition check settles on: the top one, or the
\* second one when the top app is among the last three of the history
\* (found = FALSE when it is and there is no second candidate)
ChosenCandidate(all_predictions, history) ==
    IF InSeq(all_predictions[1].app_name, LastN(history, 3))
    THEN IF Len(all_predictions) > 1
         THEN [found |-> TRUE, c |-> all_predictions[2]]
         ELSE [found |-> FALSE, c |-> all_predictions[1]]
    ELSE [found |-> TRUE, c |-> all_predictions[1]]

\* the candidate the returned text is about.  The diversification branch
\* (draw: random.random() < 0.2) assigns top_app and confidence after the
\* templates were formatted, so it does not change the text.
TextCandidate(all_predictions, chosen, draw) == chosen

\* a history that is cut after the eleventh app: the property of the
\* history has to tell it from AppendHistory
AppendHistoryKeepingEleven(history, app) ==
    IF Len(history) + 1 > 11 THEN Tail(Append(history, app)) ELSE Append(history, app)

\* _last_suggestions after appending the chosen app
AppendHistory(history, app) ==
    IF Len(history) + 1 > 10 THEN Tail(Append(history, app)) ELSE Append(history, app)

\* generate_suggestion_from_prediction(prediction, current_window): the
\* prediction is its all_predictions list (top_prediction is the first
\* element), None is <<>>; the result is the text (None is ""), the new
\* _last_suggestions, and the app the call appended to it ("" if none)
generate_suggestion_from_prediction(all_predictions, current_window, history, draw, r) ==
    IF all_predictions = <<>>
    THEN [called |-> TRUE, text |-> "", history |-> history, chosen |-> ""]
    ELSE LET chosen == ChosenCandidate(all_predictions, history)
             shown == TextCandidate(all_predictions, chosen.c, draw)
         IN  IF ~chosen.found
             THEN [called |-> TRUE, text |-> "", history |-> history, chosen |-> ""]
             ELSE IF chosen.c.confidence < 20
             THEN [called |-> TRUE, text |-> "",
                   history |-> AppendHistory(history, chosen.c.app_name),
                   chosen |-> chosen.c.app_name]
             ELSE [called |-> TRUE,
                   text |-> choice(SuggestionTemplates(shown.app_name, shown.confidence,
                                       extract_app_name(current_window)), r),
                   history |-> AppendHistory(history, chosen.c.app_name),
                   chosen |-> chosen.c.app_name]

\* _last_suggestions after n calls with the prediction (Chrome 72, Slack 25)
RECURSIVE HistoryAfter(_)
HistoryAfter(n) ==
    IF n = 0 THEN <<>>
    ELSE generate_suggestion_from_prediction(
             << Candidate("Chrome", 72), Candidate("Slack", 25) >>, "Chrome",
             HistoryAfter(n - 1), FALSE, 0).history

\* what the learned predictor does on a call: whether the module imports
\* (tensorflow present) and the prediction of the model
MLRun(import_ok, all_predictions) == [import_ok |-> import_ok, all_predictions |-> all_predictions]

\* predict_next_app(recent_windows) returns None when there is no recent
\* window (IndexError) or one of them is no string (TypeError): both are
\* caught inside prepare_sequence_for_prediction
CanPredict(recent_windows) ==
    /\ recent_windows # <<>>
    /\ \A i \in DOMAIN recent_windows : recent_windows[i].t = "str"

\* get_ml_suggestion(window_title, recent_windows) of suggestion_engine.py:
\* everything raised inside is caught, None ("") is returned; the generator
\* is called only with a prediction
get_ml_suggestion(ml, window_title, recent_windows, history, draw, r) ==
    IF ~ml.import_ok \/ ~CanPredict(recent_windows) \/ ml.all_predictions = <<>>
    THEN [called |-> FALSE, text |-> "", history |-> history, chosen |-> ""]
    ELSE generate_suggestion_from_prediction(ml.all_predictions, window_title, history, draw, r)

(***************************************************************************)
(* integration.py: run_complete_cycle                                      *)
(***************************************************************************)
\* the characters of r'[\w\s\.]'
AppChars == WordChars \cup Whitespace \cup {"."}

\* the end of the longest run of characters of the set starting at i
\* (i - 1 when s[i] is not in the set)
RunEnd(s, i, set) ==
    LET stops == {j \in i..Len(s) : Ch(s, j) \notin set}
    IN  IF stops = {} THEN Len(s) ELSE Min(stops) - 1

\* the positions where verb + r'\s+([\w\s\.]+)' matches
VerbMatches(s, verb) ==
    {i \in 1..Len(s) :
        /\ MatchAt(s, i, verb)
        /\ RunEnd(s, i + Len(verb), Whitespace) >= i + Len(verb)
        /\ \/ RunEnd(s, i + Len(verb), AppChars) > RunEnd(s, i + Len(verb), Whitespace)
           \/ RunEnd(s, i + Len(verb), Whitespace) >= i + Len(verb) + 1}

\* re.findall(verb + r'\s+([\w\s\.]+)', s)[0] for the leftmost match, at i:
\* \s+ takes the whole run of whitespace unless the group would be left
\* empty
FirstGroupAt(s, verb, i) ==
    IF RunEnd(s, i + Len(verb), AppChars) > RunEnd(s, i + Len(verb), Whitespace)
    THEN SubSeq(s, RunEnd(s, i + Len(verb), Whitespace) + 1, RunEnd(s, i + Len(verb), AppChars))
    ELSE SubSeq(s, RunEnd(s, i + Len(verb), Whitespace), RunEnd(s, i + Len(verb), Whitespace))

FirstGroup(s, verb) == FirstGroupAt(s, verb, Min(VerbMatches(s, verb)))

\* str.rstrip(chars)
rstrip(s, chars) ==
    LET keep == {i \in 1..Len(s) : Ch(s, i) \notin chars}
    IN  IF keep = {} THEN "" ELSE SubSeq(s, 1, Max(keep))

\* the first of the three verbs with a match in the lowered suggestion
FirstVerb(text) ==
    IF VerbMatches(text, "open") # {} THEN "open"
    ELSE IF VerbMatches(text, "switch to") # {} THEN "switch to"
    ELSE IF VerbMatches(text, "use") # {} THEN "use"
    ELSE ""

\* a cycle that stores no app for a suggestion that names none: the
\* property of the default target has to tell it from AppAfterVerb
AppAfterVerbNoDefault(text, verb, window) ==
    IF verb = "" THEN ""
    ELSE rstrip(strip(FirstGroup(text, verb)), {"?", ".", ",", "!"})

\* potential_apps[0].strip().rstrip('?.,!'), or the current app
AppAfterVerb(text, verb, window) ==
    IF verb = "" THEN extract_app_name(window)
    ELSE rstrip(strip(FirstGroup(text, verb)), {"?", ".", ",", "!"})

\* the suggested_app stored with a suggestion
SuggestedApp(suggestion, window) ==
    AppAfterVerb(lower(suggestion), FirstVerb(lower(suggestion)), window)

\* recent_windows of run_complete_cycle
RecentWindows(memory_data) ==
    LET last == LastN(memory_data, 10)
        idx == Ordered({i \in DOMAIN last : HasWindow(last[i])})
    IN  [k \in DOMAIN idx |-> last[idx[k]].window]

\* what the OS collaborators of context_tracker.py return in one cycle
Context(window, files, processes) == [window |-> window, files |-> files, processes |-> processes]

\* the outcomes of the three writes of a cycle: the initial feedback
\* structure, the updated feedback data, the memory
Disk(fb_init, fb_save, mem_save) == [fb_init |-> fb_init, fb_save |-> fb_save, mem_save |-> mem_save]

\* the end of run_complete_cycle, after the tiers: mlres, phi and smart are
\* what the three tiers give when invoked; the suggestion is stored with
\* its app and timestamp, and returned
CycleEnd(fb, logged, memfile, history, clock, clock2, ctx, mlres, phi, smart) ==
    LET after_llm == IF mlres.text # "" THEN mlres.text
                     ELSE IF phi.raised THEN "" ELSE phi.text
        suggestion == IF after_llm # "" THEN after_llm ELSE smart.text
        tiers == << [tier |-> "ml", out |-> IF mlres.text = "" THEN "empty" ELSE "text"] >>
                 \o (IF mlres.text = ""
                     THEN << [tier |-> "llm",
                              out |-> IF phi.raised THEN "raised"
                                      ELSE IF phi.text = "" THEN "empty" ELSE "text"] >>
                     ELSE <<>>)
                 \o (IF after_llm = ""
                     THEN << [tier |-> "heuristic",
                              out |-> IF smart.raised THEN "raised"
                                      ELSE IF smart.text = "" THEN "empty" ELSE "text"] >>
                     ELSE <<>>)
        base == [raised_in |-> "", suggestion |-> "", last |-> fb.last, fbfile |-> fb.file,
                 memfile |-> memfile, history |-> history, clock |-> clock,
                 fb |-> fb, logged |-> logged, tiers |-> <<>>,
                 ml |-> [called |-> FALSE, text |-> "", history |-> history, chosen |-> ""]]
    IN  IF fb.raised
        THEN [base EXCEPT !.raised_in = "feedback"]
        ELSE IF logged.raised
        THEN [base EXCEPT !.raised_in = "memory", !.memfile = logged.file]
        ELSE IF after_llm = "" /\ smart.raised
        THEN [base EXCEPT !.raised_in = "heuristic", !.memfile = logged.file, !.ml = mlres,
                          !.history = mlres.history, !.clock = clock2, !.tiers = tiers]
        ELSE [base EXCEPT !.suggestion = suggestion, !.memfile = logged.file, !.ml = mlres,
                          !.history = mlres.history, !.clock = clock2, !.tiers = tiers,
                          !.last = IF suggestion # ""
                                   THEN [text |-> Str(suggestion),
                                         app_name |-> Str(SuggestedApp(suggestion, ctx.window)),
                                         timestamp |-> strftime(clock2)]
                                   ELSE fb.last]

\* the LLM tier and the heuristic tier of run_complete_cycle; clock2 is the
\* clock after the LLM tier
CycleTiers(fb, logged, memfile, history, clock, clock2, ctx, llm, r, mlres, prompt_raises) ==
    CycleEnd(fb, logged, memfile, history, clock, clock2, ctx, mlres,
             IF prompt_raises THEN [raised |-> TRUE, text |-> ""]
             ELSE ask_phi(llm, ctx.window, ctx.files, ctx.processes, logged.file, clock2, r),
             get_smart_suggestion(ctx.window, ctx.files, ctx.processes, logged.file, clock2, r))

\* run_complete_cycle after the learned tier: the LLM is asked, and takes
\* its time, when the learned tier gave nothing and build_prompt did not
\* raise
CycleAfterML(fb, logged, memfile, history, clock, ctx, llm, r, mlres, prompt_raises) ==
    CycleTiers(fb, logged, memfile, history, clock,
               IF mlres.text = "" /\ ~prompt_raises THEN clock + llm.ms ELSE clock,
               ctx, llm, r, mlres, prompt_raises)

\* run_complete_cycle after the feedback step and the memory step
CycleAfterLog(fb, logged, memfile, history, clock, ctx, ml, draw, llm, r) ==
    CycleAfterML(fb, logged, memfile, history, clock, ctx, llm, r,
                 get_ml_suggestion(ml, ctx.window, RecentWindows(load_memory(logged.file)),
                                   history, draw, r),
                 build_prompt_raises(logged.file))

\* run_complete_cycle() entered at clock: the new globals and files, the
\* returned suggestion, and a trace of the steps (fb: the feedback step,
\* logged: the memory step, tiers: the tiers invoked with their results,
\* raised_in: the step whose exception left the function, "" if none)
run_complete_cycle(last, fbfile, memfile, history, clock, ctx, disk, ml, draw, llm, r) ==
    CycleAfterLog(record_suggestion_feedback(last, fbfile, ctx.window, clock,
                                             disk.fb_init, disk.fb_save),
                  log_to_memory(memfile, Str(ctx.window), List(ctx.files),
                                List(ctx.processes), clock, disk.mem_save),
                  memfile, history, clock, ctx, ml, draw, llm, r)

(***************************************************************************)
(* action_executor.py: extract_action_from_suggestion.  re.search gives    *)
(* the leftmost match; at one position the alternatives are tried in the   *)
(* order written and the quantifiers are greedy.                           *)
(***************************************************************************)
\* the first of the alternatives that s holds at position i, "" if none
FirstAt(s, i, alternatives) ==
    LET hits == {k \in DOMAIN alternatives : MatchAt(s, i, alternatives[k])}
    IN  IF hits = {} THEN "" ELSE alternatives[Min(hits)]

\* the key names of the shortcut pattern
ShortcutKeys ==
    << "ctrl", "alt", "shift", "win", "tab", "esc", "spacebar", "space bar", "enter", "delete",
       "backspace", "home", "end", "page up", "page down" >>

\* (?:\s*\+\s*(?:shift|alt|ctrl|tab|[a-z0-9]))? after a match that ends at
\* e: the new end, e when the group matches nothing
ComboEnd(s, e) ==
    LET p == RunEnd(s, e + 1, Whitespace) + 1
        q == RunEnd(s, p + 1, Whitespace) + 1
        word == FirstAt(s, q, << "shift", "alt", "ctrl", "tab" >>)
    IN  IF ~MatchAt(s, p, "+") THEN e
        ELSE IF word # "" THEN q + Len(word) - 1
        ELSE IF q <= Len(s) /\ Ch(s, q) \in CharsOf(LowerLetters) \cup CharsOf(DigitChars) THEN q
        ELSE e

\* where the key name starts when (?:try|use|press)\s+(?:the\s+)? followed
\* by a key name matches at i, 0 when it does not
ShortcutKeyAt(s, i) ==
    LET verb == FirstAt(s, i, << "try", "use", "press" >>)
        b == RunEnd(s, i + Len(verb), Whitespace) + 1
        c == RunEnd(s, b + 3, Whitespace) + 1
    IN  IF verb = "" \/ b = i + Len(verb) THEN 0
        ELSE IF MatchAt(s, b, "the") /\ c > b + 3 /\ FirstAt(s, c, ShortcutKeys) # "" THEN c
        ELSE IF FirstAt(s, b, ShortcutKeys) # "" THEN b
        ELSE 0

\* shortcut_match.group(1).strip() on the lowered suggestion, "" without a
\* match
shortcut_match(s) ==
    LET starts == {i \in 1..Len(s) : ShortcutKeyAt(s, i) # 0}
        k == ShortcutKeyAt(s, Min(starts))
        e == k + Len(FirstAt(s, k, ShortcutKeys)) - 1
    IN  IF starts = {} THEN "" ELSE strip(SubSeq(s, k, ComboEnd(s, ComboEnd(s, e))))

\* app_file_match.group(1) for r'(\w+\.py|\w+\.exe|\w+\.json)', "" without
\* a match: \w+ runs to the end of the word, where the extension must start
app_file_match(s) ==
    LET exts == << ".py", ".exe", ".json" >>
        starts == {i \in 1..Len(s) :
                      /\ Ch(s, i) \in WordChars
                      /\ FirstAt(s, RunEnd(s, i, WordChars) + 1, exts) # ""}
        e == RunEnd(s, Min(starts), WordChars)
    IN  IF starts = {} THEN "" ELSE SubSeq(s, Min(starts), e) \o FirstAt(s, e + 1, exts)

\* the loop over the first three app_patterns on the lowered suggestion: the
\* target of the first verb whose match is no bare pronoun
app_pattern_match(s) ==
    LET target(verb) == rstrip(strip(FirstGroup(s, verb)), {"?", ".", ",", "!"})
        usable(verb) ==
            /\ VerbMatches(s, verb) # {}
            /\ target(verb) \notin {"it", "this", "that", "them", "they", "these", "those"}
    IN  IF usable("open") THEN [found |-> TRUE, target |-> target("open")]
        ELSE IF usable("switch to") THEN [found |-> TRUE, target |-> target("switch to")]
        ELSE IF usable("use") THEN [found |-> TRUE, target |-> target("use")]
        ELSE [found |-> FALSE, target |-> ""]

\* any(indicator in suggestion.lower() for indicator in ...)
non_actionable(s) ==
    \E indicator \in {"shortcut", "keyboard", "tip", "consider", "try", "ctrl+", "alt+",
                       "shift+", "tutorial", "faster", "speed"} : Contains(s, indicator)

\* ml_suggestion_match for r'sometimes use\s+([\w\s\.]+)\s+in this context':
\* the greedy group ends one whitespace before the last "in this context"
\* of its run
ml_suggestion_match(s) ==
    LET heads == {i \in 1..Len(s) :
                    /\ MatchAt(s, i, "sometimes use")
                    /\ RunEnd(s, i + 13, Whitespace) >= i + 13}
        tails(i) == {q \in (i + 15)..RunEnd(s, i + 13, AppChars) :
                        MatchAt(s, q, "in this context") /\ Ch(s, q - 1) \in Whitespace}
        starts == {i \in heads : tails(i) # {}}
        g == IF RunEnd(s, Min(starts) + 13, Whitespace) + 1 <= Max(tails(Min(starts))) - 2
             THEN RunEnd(s, Min(starts) + 13, Whitespace) + 1
             ELSE Max(tails(Min(starts))) - 2
    IN  IF starts = {} THEN [found |-> FALSE, target |-> ""]
        ELSE [found |-> TRUE, target |-> strip(SubSeq(s, g, Max(tails(Min(starts))) - 2))]

\* website_match.group(1) for r'([\w\.-]+\.(com|org|net|io|dev))' on the
\* lowered suggestion, "" without a match: the greedy class gives back
\* characters up to the last "." of its run that a domain ending follows
website_match(s) ==
    LET class == WordChars \cup {".", "-"}
        tld(d) == FirstAt(s, d + 1, << "com", "org", "net", "io", "dev" >>)
        dots(i) == {d \in (i + 1)..RunEnd(s, i, class) : Ch(s, d) = "." /\ tld(d) # ""}
        starts == {i \in 1..Len(s) : Ch(s, i) \in class /\ dots(i) # {}}
        d == Max(dots(Min(starts)))
    IN  IF starts = {} THEN "" ELSE SubSeq(s, Min(starts), d + Len(tld(d)))

\* the dict returned (type "none" for None), or the exception
ActionInfo(type, target) == [raised |-> FALSE, type |-> type, target |-> target]

\* extract_action_from_suggestion(suggestion).  The comparison of line 54
\* holds for no pattern, so a match of r'open it now\?' or
\* r'ready to switch\?' reaches match.group(1) at line 62: IndexError.
extract_action_from_suggestion(suggestion) ==
    IF suggestion = "" THEN ActionInfo("none", NoneStr)
    ELSE IF shortcut_match(lower(suggestion)) # ""
    THEN ActionInfo("keyboard_shortcut", Str(shortcut_match(lower(suggestion))))
    ELSE IF app_file_match(suggestion) # ""
    THEN ActionInfo("open_app", Str(app_file_match(suggestion)))
    ELSE IF app_pattern_match(lower(suggestion)).found
    THEN ActionInfo("open_app", Str(app_pattern_match(lower(suggestion)).target))
    ELSE IF \/ Contains(lower(suggestion), "open it now?")
            \/ Contains(lower(suggestion), "ready to switch?")
    THEN [raised |-> TRUE, type |-> "none", target |-> NoneStr]
    ELSE IF non_actionable(lower(suggestion))
    THEN ActionInfo("show_tip", Str(suggestion))
    ELSE IF ml_suggestion_match(suggestion).found
    THEN ActionInfo("open_app", Str(ml_suggestion_match(suggestion).target))
    ELSE IF website_match(lower(suggestion)) # ""
    THEN ActionInfo("open_website", Str(website_match(lower(suggestion))))
    ELSE ActionInfo("none", NoneStr)

(***************************************************************************)
(* action_executor.py: execute_action.  popen is the outcome of            *)
(* subprocess.Popen(executable), py the outcome of the search for a Python *)
(* file of the project and of its launch, browser that of webbrowser.open. *)
(***************************************************************************)
\* the keys of app_mapping
app_mapping ==
    {"chrome", "google chrome", "firefox", "edge", "microsoft edge", "word", "excel",
     "powerpoint", "notepad", "visual studio code", "vscode", "code", "explorer",
     "file explorer"}

\* open_application(app_name): only FileNotFoundError is caught around the
\* Popen of the executable; the launch of a Python file is under a bare
\* except.  launched counts the processes started.
open_application(app_name, popen, py) ==
    LET executable == lower(app_name.s) \in app_mapping \/ endswith(lower(app_name.s), ".exe")
        done(ret, n) == [raised |-> FALSE, ret |-> ret, launched |-> n]
    IN  IF ~Truthy(app_name) THEN done(FALSE, 0)
        ELSE IF app_name.t # "str" THEN [raised |-> TRUE, ret |-> FALSE, launched |-> 0]
        ELSE IF executable /\ popen = "ok" THEN done(TRUE, 1)
        ELSE IF executable /\ popen = "other_error"
        THEN [raised |-> TRUE, ret |-> FALSE, launched |-> 0]
        ELSE IF endswith(app_name.s, ".py") /\ py = "ok" THEN done(TRUE, 1)
        ELSE done(FALSE, 0)

\* open_website(url): every exception of webbrowser.open is caught
open_website(url, browser) ==
    IF ~Truthy(url) THEN [raised |-> FALSE, ret |-> FALSE, launched |-> 0]
    ELSE IF url.t # "str" THEN [raised |-> TRUE, ret |-> FALSE, launched |-> 0]
    ELSE [raised |-> FALSE, ret |-> browser = "ok", launched |-> IF browser = "ok" THEN 1 ELSE 0]

\* execute_action(action_info): action_info is None (dict FALSE) or a dict
\* whose type and target may be missing or None; no call is guarded
execute_action(action_info, popen, py, browser) ==
    LET result(opened, info_only) ==
            [raised |-> opened.raised, success |-> opened.ret, info_only |-> info_only,
             launched |-> opened.launched]
        nothing == [raised |-> FALSE, ret |-> FALSE, launched |-> 0]
    IN  IF ~action_info.dict \/ ~Truthy(action_info.type) THEN result(nothing, FALSE)
        ELSE IF action_info.type = Str("open_app")
        THEN result(open_application(action_info.target, popen, py), FALSE)
        ELSE IF action_info.type = Str("open_website")
        THEN result(open_website(action_info.target, browser), FALSE)
        ELSE IF action_info.type \in {Str("keyboard_shortcut"), Str("show_tip")}
        THEN result(nothing, TRUE)
        ELSE result(nothing, FALSE)

(***************************************************************************)
(* State                                                                   *)
(***************************************************************************)
(* inference_engine.py                                                     *)
(***************************************************************************)
file_extension ==
    ".txt" :> "The user is likely working on text or notes." @@
    ".docx" :> "The user might be working on a document or writing a report." @@
    ".exe" :> "The user is likely using an application or running a setup." @@
    ".pdf" :> "The user might be reading or working on a PDF document." @@
    ".md" :> "The user might be working on markdown documentation or a README file." @@
    ".xlsx" :> "The user is likely working on a spreadsheet." @@
    ".py" :> "The user is working on Python code." @@
    ".js" :> "The user is working on JavaScript code." @@
    ".html" :> "The user is working on a web page." @@
    ".css" :> "The user is working on web styling." @@
    ".json" :> "The user is working with data or configuration files." @@
    ".pptx" :> "The user is working on a presentation."

process_activity ==
    "notepad.exe" :> "The user might be editing or viewing some notes." @@
    "chrome.exe" :> "The user might be browsing the web or researching." @@
    "explorer.exe" :> "The user might be organizing or managing files." @@
    "Code.exe" :> "The user is likely working on code or a project." @@
    "msedge.exe" :> "The user might be browsing with Microsoft Edge." @@
    "DuckDuckGo.exe" :> "The user is searching the web using DuckDuckGo." @@
    "python.exe" :> "The user is running Python scripts." @@
    "powershell.exe" :> "The user is working with PowerShell scripts or commands." @@
    "cmd.exe" :> "The user is running command line tools." @@
    "zoom.exe" :> "The user might be in a meeting or video call." @@
    "slack.exe" :> "The user might be communicating with colleagues." @@
    "outlook.exe" :> "The user is checking emails or managing calendar."

time_context ==
    "morning" :> "This is a good time to plan your day or check emails." @@
    "afternoon" :> "Consider reviewing your progress on today's tasks." @@
    "evening" :> "Time to wrap up work and prepare for tomorrow." @@
    "late_night" :> "Consider taking a break or switching to less intensive tasks."

\* inference_rules["window_patterns"], in the order of the dict
window_patterns ==
    << <<"Visual Studio Code",
         "You're coding. Consider using Ctrl+Space for autocomplete or Alt+Shift+F to format.">>,
       <<"browser", "You're browsing. Remember to bookmark important pages with Ctrl+D.">>,
       <<"document", "You're writing. Save regularly with Ctrl+S.">>,
       <<"presentation",
         "You're working on slides. Use Alt+Shift+Left/Right to reorganize slides.">>,
       <<"spreadsheet", "You're analyzing data. Remember Alt+= for quick sum.">> >>

\* s.split(sep) for a separator of one character
split(s, sep) ==
    LET at == Ordered({i \in 1..Len(s) : Ch(s, i) = sep})
        edge == <<0>> \o at \o <<Len(s) + 1>>
    IN  [k \in 1..(Len(at) + 1) |-> SubSeq(s, edge[k] + 1, edge[k + 1] - 1)]

\* os.path.splitext(file)[1]: from the last dot of the last path component,
\* unless that component has only dots before it
splitext(file) ==
    LET seps == {i \in 1..Len(file) : Ch(file, i) \in {"/", "\\"}}
        sep == IF seps = {} THEN 0 ELSE Max(seps)
        dots == {i \in (sep + 1)..Len(file) : Ch(file, i) = "."}
    IN  IF dots = {} THEN ""
        ELSE IF \E j \in (sep + 1)..(Max(dots) - 1) : Ch(file, j) # "."
        THEN SubSeq(file, Max(dots), Len(file))
        ELSE ""

\* match_file_extension(file)
match_file_extension(file) ==
    IF lower(splitext(file)) \in DOMAIN file_extension
    THEN file_extension[lower(splitext(file))]
    ELSE "User is working with " \o splitext(file) \o " files."

\* match_process(process): the lowered name is looked up, so the two keys
\* with capitals are never found
match_process(process) ==
    IF lower(process) \in DOMAIN process_activity
    THEN process_activity[lower(process)]
    ELSE "User has " \o process \o " running."

\* get_time_context()
get_time_context(clock) ==
    IF 5 <= HourOf(clock) /\ HourOf(clock) < 12 THEN "morning"
    ELSE IF 12 <= HourOf(clock) /\ HourOf(clock) < 17 THEN "afternoon"
    ELSE IF 17 <= HourOf(clock) /\ HourOf(clock) < 22 THEN "evening"
    ELSE "late_night"

RECURSIVE ProjectParts(_, _)
\* the path components extract_project_context counts, in counting order;
\* the paths are normalised ones, with "/" between the components
ProjectParts(files, i) ==
    IF i > Len(files) THEN <<>>
    ELSE SelectSeq(split(files[i], "/"),
                   LAMBDA part : part # "" /\ part # "Users" /\ part # "Desktop"
                                 /\ ~startswith(part, "."))
         \o ProjectParts(files, i + 1)

\* extract_project_context(files): None is ""
extract_project_context(files) ==
    IF ProjectParts(files, 1) = <<>> THEN ""
    ELSE most_common(ProjectParts(files, 1), 1)[1][1]

\* analyze_window_title(title)
analyze_window_title(title) ==
    LET hits == {k \in DOMAIN window_patterns : Contains(lower(title), lower(window_patterns[k][1]))}
    IN  IF hits # {} THEN window_patterns[Min(hits)][2]
        ELSE IF Contains(title, " - ")
        THEN "You're working on " \o SubSeq(title, 1, Min({i \in 1..Len(title) : MatchAt(title, i, " - ")}) - 1) \o "."
        ELSE "You're working in " \o title \o "."

\* entry.get("window", "") as the text an f-string prints
WindowKey(e) ==
    IF e.window.t = "str" THEN e.window.s
    ELSE IF e.window.t = "none" THEN "None"
    ELSE IF e.window.t = "int" THEN "<int>"
    ELSE ""

\* entry.get(key, []) of a list field
ListOr(field) == IF field.t = "list" THEN field.l ELSE <<>>

\* the list of (suggestion, weight) make_inference builds, in the order of
\* the appends
WeightedSuggestions(active_window, recent_files, top_processes, frequent_windows, clock) ==
    LET files == SelectSeq(recent_files, LAMBDA f : f # "")
        procs == SelectSeq(top_processes, LAMBDA q : q # "")
        others == SelectSeq(frequent_windows, LAMBDA w : w[1] # active_window)
    IN  << <<analyze_window_title(active_window), 5>>,
           <<time_context[get_time_context(clock)], 4>> >>
        \o (IF extract_project_context(recent_files) # ""
            THEN << <<"You're working on the " \o extract_project_context(recent_files)
                      \o " project.", 4>> >>
            ELSE <<>>)
        \o [k \in DOMAIN files |-> <<match_file_extension(files[k]), 3>>]
        \o [k \in DOMAIN procs |-> <<match_process(procs[k]), 3>>]
        \o (IF others # <<>>
            THEN << <<"Consider switching to " \o others[1][1]
                      \o " next based on your workflow patterns.", 2>> >>
            ELSE <<>>)
        \o (IF InSeq("Code.exe", top_processes)
               /\ \E k \in DOMAIN recent_files :
                    \E x \in {".py", ".js", ".html", ".css"} : endswith(recent_files[k], x)
            THEN << <<"Remember to test your code before committing changes.", 3>> >>
            ELSE <<>>)
        \o (IF InSeq("msedge.exe", top_processes) \/ InSeq("chrome.exe", top_processes)
            THEN << <<"Consider saving important research to a document for reference.", 2>> >>
            ELSE <<>>)

\* the choice among the suggestions of the highest weight
TopWeighted(suggestions, r) ==
    LET top_weight == Max({suggestions[k][2] : k \in DOMAIN suggestions})
        top_suggestions == SelectSeq(suggestions, LAMBDA c : c[2] = top_weight)
    IN  IF suggestions = <<>>
        THEN [raised |-> FALSE, text |-> "No specific suggestions at this time.",
              suggestions |-> suggestions]
        ELSE [raised |-> FALSE, text |-> choice(top_suggestions, r)[1],
              suggestions |-> suggestions]

\* make_inference(data) for a list of dicts, patterns being empty: r is
\* the index random.choice draws.  A window that is no string fails in
\* title.lower(), a null file or process list in the iteration over it.
make_inference(data, clock, r) ==
    LET recent_data == data[Len(data)]
        history == LastN(data, 10)
    IN  IF data = <<>>
        THEN [raised |-> FALSE, text |-> "Unable to make an inference.", suggestions |-> <<>>]
        ELSE IF recent_data.window.t \in {"none", "int"} \/ recent_data.recent_files.t = "none"
                \/ recent_data.top_processes.t = "none"
        THEN [raised |-> TRUE, text |-> "", suggestions |-> <<>>]
        ELSE TopWeighted(
                WeightedSuggestions(WindowKey(recent_data), ListOr(recent_data.recent_files),
                                    ListOr(recent_data.top_processes),
                                    most_common([k \in DOMAIN history |-> WindowKey(history[k])], 3),
                                    clock),
                r)

\* load_user_data(file_path): {} for a store that cannot be read, the
\* dicts of a list (a store that parses to something else than a list is
\* not among the stores the heuristic specification starts from)
load_user_data(file) ==
    IF file.kind = "list" THEN SelectSeq(file.entries, LAMBDA e : e.t = "dict") ELSE <<>>

\* inference_engine(file_path) when there is no patterns file
inference_engine(file, clock, r) ==
    IF load_user_data(file) = <<>>
    THEN [raised |-> FALSE, text |-> "No user data available", suggestions |-> <<>>]
    ELSE make_inference(load_user_data(file), clock, r)

(***************************************************************************)
(* ui/notifier.py                                                          *)
(***************************************************************************)
\* Notifier.notification_cooldown, in seconds
notification_cooldown == 30

\* Notifier.last_notification_time: None or a datetime
NoTime == [t |-> "none", ms |-> 0]
Time(ms) == [t |-> "time", ms |-> ms]

\* a notifier that restarts the cooldown at a suppressed request: the
\* cooldown property has to tell it from send_notification
send_notification_restarting(last, clock, system, toast_ok) ==
    IF last.t = "time" /\ clock - last.ms < notification_cooldown * 1000
    THEN [ret |-> FALSE, last |-> Time(clock), delivered |-> "nothing"]
    ELSE [ret |-> TRUE, last |-> Time(clock),
          delivered |-> IF system = "Windows" /\ toast_ok THEN "toast" ELSE "console"]

\* Notifier.send_notification(title, message) at the clock: what it
\* returns, last_notification_time after it and where the message went.
\* On Windows a toast that fails is printed instead (lines 56-58).  The
\* clause of lines 63-66 takes only what print raises; print is taken as
\* not raising.
send_notification(last, clock, system, toast_ok) ==
    IF last.t = "time" /\ clock - last.ms < notification_cooldown * 1000
    THEN [ret |-> FALSE, last |-> last, delivered |-> "nothing"]
    ELSE [ret |-> TRUE, last |-> Time(clock),
          delivered |-> IF system = "Windows" /\ toast_ok THEN "toast" ELSE "console"]

\* the titles of show_status, show_suggestion and show_error
NotificationTitles ==
    "show_status" :> "ZeroInput Status" @@
    "show_suggestion" :> "ZeroInput Suggestion" @@
    "show_error" :> "ZeroInput Error"

(***************************************************************************)
(* hotkey_manager.py: _hotkey_callback runs on the thread of the keyboard  *)
(* listener, one attribute read at a time, while the main thread may       *)
(* assign current_suggestion and action_callback.                          *)
(***************************************************************************)
\* the dict extract_action_from_suggestion returned, as execute_action
\* takes it
AsActionInfo(extracted) ==
    [dict |-> TRUE,
     type |-> IF extracted.type = "none" THEN NoneStr ELSE Str(extracted.type),
     target |-> extracted.target]

\* the text of a suggestion slot: None and "" are both falsy
SlotText(slot) == IF slot.t = "str" THEN slot.s ELSE ""

\* a callback that takes the type from the suggestion it checked at line 55
\* and the target from the one it reads at line 63: the hotkey property has
\* to tell it from ExtractFromSlot
ExtractFromSlotMixed(checked, read) ==
    [extract_action_from_suggestion(SlotText(read)) EXCEPT
        !.type = extract_action_from_suggestion(SlotText(checked)).type]

\* line 63: the action comes from the one value of the slot read there,
\* not from the value checked at line 55
ExtractFromSlot(checked, read) == extract_action_from_suggestion(SlotText(read))

\* the callback thread at rest
HotkeyIdle == [line |-> 0, action_info |-> ActionInfo("none", NoneStr)]

\* what the history keeps of one trigger: the values the slot held during
\* the run, the suggestion and the callback checked at line 55, the value
\* read at line 63, the actions passed to the callback, the suggestion printed at lines 72-74
\* and how the run ended
Firing(slot) ==
    [seen |-> {slot}, checked |-> NoneStr, callback |-> FALSE, read |-> NoneStr,
     passed |-> <<>>, reported |-> NoneStr, ended |-> ""]

(***************************************************************************)
VARIABLES
    now,                \* the wall clock, in milliseconds
    memory_file,        \* zeroinput_memory.json
    feedback_file,      \* zeroinput_feedback.json
    _last_suggestion,   \* integration.py: the pending suggestion
    _last_suggestions,  \* ml_predictor.py: the apps chosen by the learned tier
    cycle_count,        \* main.py: the cycles started
    running,            \* main.py: the loop of main() has not been left
    issued_at,          \* history: the clock when _last_suggestion was stored
    checks,             \* history: the first feedback check of each suggestion
    ml_calls,           \* history: the app chosen by each call of the generator
    calls,              \* history: the number of direct calls made
    trace,              \* history: the last call, its inputs and its result
    last_notification_time, \* notifier.py: Notifier.last_notification_time
    accepted,           \* history: the clocks of the notifications accepted
    current_suggestion, \* hotkey_manager.py: HotkeyManager.current_suggestion
    action_callback,    \* hotkey_manager.py: HotkeyManager.action_callback
    hotkey_thread,      \* the run of _hotkey_callback: its line and locals
    fired               \* history: the triggers of the hotkey, what each did

\* the fields of the Notifier and the history of what it accepted
notifier_vars == <<last_notification_time, accepted>>

\* the fields of the HotkeyManager, its callback run and its history
hotkey_vars == <<current_suggestion, action_callback, hotkey_thread, fired>>

vars == <<now, memory_file, feedback_file, _last_suggestion, _last_suggestions,
          cycle_count, running, issued_at, checks, ml_calls, calls, trace,
          notifier_vars, hotkey_vars>>

(***************************************************************************)
(* Bounds and inputs                                                       *)
(***************************************************************************)
\* assignments of the main thread in the hotkey specification
MaxHotkeyCalls == 3

\* presses of the hotkey in the hotkey specification
MaxFirings == 1

\* the suggestions the main thread stores: an application, a website, a
\* shortcut, one the extraction fails on, and None
HotkeySuggestions ==
    {Str("Open chrome"), Str("You often visit github.com after coding."),
     Str("Try pressing ctrl+shift+p for the command palette."),
     Str("Chrome next. Ready to switch?"), NoneStr}

\* calls of record_suggestion_feedback in the store specification
MaxStoreCalls == 3

\* calls of the notifier in the notifier specification
MaxNotifyCalls == 3

\* the time between two requests to the notifier, in milliseconds
NotifyDelays == {1000, 29900, 30000, 45000}

\* cycles of the main loop in the feedback specification
MaxCycles == 2

\* cycles of the main loop in the tier specification
MaxTierCycles == 1

\* direct calls of generate_suggestion_from_prediction
MaxMLCalls == 4

\* direct calls of the memory store
MaxMemoryCalls == 2

\* cycles of the main loop in the loop specification
MaxLoopCycles == 2

\* direct calls of record_suggestion_feedback
MaxFeedbackCalls == 2

WindowCode == "main.py - Visual Studio Code"
WindowMail == "Inbox - Gmail"
WindowNotes == "Notes"

FilesSome == << "C:/Users/u/Documents/main.py", "C:/Users/u/Downloads/notes.txt" >>

ProcessesCode == << "Code.exe", "chrome.exe", "explorer.exe" >>
ProcessesPlain == << "explorer.exe", "svchost.exe", "dwm.exe", "chrome.exe" >>

\* the clock at the start: 09:00:00.500 and 21:00:00.500
StartClocks == {9 * 3600000 + 500, 21 * 3600000 + 500}

\* the time between two cycles: the sleep of main, and a machine that was
\* suspended for just under / just over five minutes
Delays == {10000, 299800, 300200}

AllOk == Disk("ok", "ok", "ok")

\* six alternating observations of the two windows, ten seconds apart: the
\* transition main.py -> Inbox was seen three times
WorkflowMemory ==
    [i \in 1..6 |-> Entry(TS(32000 + 10 * i),
                          Str(IF i % 2 = 1 THEN WindowCode ELSE WindowMail),
                          List(FilesSome), List(ProcessesCode))]

\* a store with an entry that is no snapshot: a number as window (an entry
\* the clean_memory_file of integration.py keeps); the others have a null
\* window, an empty window, a null file list, a number in place of the
\* record
NumberWindowMemory == << Entry(TS(32010), IntStr, List(FilesSome), List(ProcessesCode)) >>

\* the stores with one entry that is no snapshot
InvalidEntryMemories ==
    {NumberWindowMemory,
     << Entry(TS(32010), NoneStr, List(FilesSome), List(ProcessesCode)) >>,
     << Entry(TS(32010), Str(""), List(FilesSome), List(ProcessesCode)) >>,
     << Entry(TS(32010), Str(WindowCode), NoneList, List(ProcessesCode)) >>,
     << NonDictEntry >>}

\* a store edited by hand or left by another version: two snapshots, then
\* an entry with an empty file list, one with a null window, one without
\* timestamp, one with an empty process list and a last snapshot
MixedMemory ==
    << Entry(TS(32010), Str(WindowCode), List(FilesSome), List(ProcessesCode)),
       Entry(TS(32020), Str(WindowMail), List(FilesSome), List(ProcessesCode)),
       Entry(TS(32030), Str(WindowNotes), List(<<>>), List(ProcessesCode)),
       Entry(TS(32040), NoneStr, List(FilesSome), List(ProcessesCode)),
       Entry(NoneTS, Str(WindowCode), List(FilesSome), List(ProcessesCode)),
       Entry(TS(32060), Str(WindowMail), List(FilesSome), List(<<>>)),
       Entry(TS(32070), Str(WindowNotes), List(FilesSome), List(ProcessesPlain)) >>

\* three observations of an editor window, then two of a browser window
EditorBrowserMemory ==
    [i \in 1..5 |-> Entry(TS(32000 + 10 * i),
                          Str(IF i <= 3 THEN "Editor - file.py" ELSE "Browser - tab"),
                          List(FilesSome), List(ProcessesCode))]

\* a store whose last snapshot has an empty window title, a file without
\* extension and a process no rule knows
BareMemory ==
    << Entry(TS(32010), Str(WindowNotes), List(FilesSome), List(ProcessesPlain)),
       Entry(TS(32020), Str(""), List(<<"notes">>), List(<<"svchost.exe">>)) >>

\* a feedback store left by an earlier session: one ignored suggestion
EarlierFeedback ==
    FeedbackFile("ok",
        << [timestamp |-> TS(30000), suggestion_text |-> "Would you like to open Slack?",
            suggested_app |-> "slack", followed |-> FALSE, time_to_respond |-> 10200,
            current_app |-> "main.py"] >>,
        [total |-> 1, followed |-> 0, ignored |-> 1])

LLMTimeout == LLMRun("timeout", "", 30000)

\* what the LLM tier can meet: a timeout, ollama not running, a usable
\* reply, a descriptive reply (rejected), a reply that is empty once the
\* echoed prompt line is removed
LLMRuns ==
    {LLMTimeout,
     LLMRun("not_running", "", 1000),
     LLMRun("answered", "Use Ctrl+P to switch to another file quickly.", 5000),
     LLMRun("answered", "You are editing a Python file.", 5000),
     LLMRun("answered", "Your specific, actionable suggestion:", 5000)}

\* what the learned tier can meet: tensorflow missing, no prediction, one
\* candidate, two candidates
MLRuns ==
    {MLRun(FALSE, <<>>),
     MLRun(TRUE, <<>>),
     MLRun(TRUE, << Candidate("Chrome", 75) >>),
     MLRun(TRUE, << Candidate("Chrome", 60), Candidate("Slack", 30) >>)}

\* the predictions of the direct calls: at most three candidates above 10,
\* by decreasing confidence, shares of a softmax output (100 in total)
Predictions ==
    {<<>>,
     << Candidate("Chrome", 75) >>,
     << Candidate("Chrome", 15) >>,
     << Candidate("Chrome", 72), Candidate("Slack", 25) >>,
     << Candidate("Chrome", 60), Candidate("Slack", 15) >>,
     << Candidate("Slack", 40), Candidate("Chrome", 30) >>}

(***************************************************************************)
(* Initial states: nothing pending, the stores as found on disk            *)
(***************************************************************************)
InitGlobals ==
    /\ _last_suggestion = NoSuggestion
    /\ _last_suggestions = <<>>
    /\ cycle_count = 0
    /\ running = TRUE
    /\ issued_at = 0
    /\ checks = {}
    /\ ml_calls = <<>>
    /\ calls = 0
    /\ trace = [op |-> "start"]
    /\ current_suggestion = NoneStr
    /\ action_callback = FALSE
    /\ hotkey_thread = HotkeyIdle
    /\ fired = <<>>

\* Notifier(): nothing was shown yet
NotifierFresh ==
    /\ last_notification_time = NoTime
    /\ accepted = <<>>

\* main() has shown its status notification when the loop starts
NotifierStarted ==
    /\ last_notification_time = Time(now)
    /\ accepted = <<now>>

Init ==
    /\ InitGlobals
    /\ now \in StartClocks
    /\ NotifierStarted
    /\ memory_file = MemFile("missing", <<>>)
    /\ feedback_file \in {FeedbackFile("missing", <<>>, NoStats),
                          FeedbackFile("unreadable", <<>>, NoStats),
                          FeedbackFile("malformed", <<>>, NoStats),
                          EarlierFeedback}

InitTiers ==
    /\ InitGlobals
    /\ now \in StartClocks
    /\ NotifierStarted
    /\ memory_file \in {MemFile("missing", <<>>), MemFile("list", WorkflowMemory),
                        MemFile("list", NumberWindowMemory)}
    /\ feedback_file = FeedbackFile("missing", <<>>, NoStats)

InitLoop ==
    /\ InitGlobals
    /\ now \in StartClocks
    /\ NotifierStarted
    /\ memory_file \in {MemFile("missing", <<>>), MemFile("list", NumberWindowMemory)}
    /\ feedback_file \in {FeedbackFile("missing", <<>>, NoStats),
                          FeedbackFile("malformed", <<>>, NoStats)}

InitML ==
    /\ InitGlobals
    /\ now \in StartClocks
    /\ NotifierFresh
    /\ memory_file = MemFile("missing", <<>>)
    /\ feedback_file = FeedbackFile("missing", <<>>, NoStats)

\* the numbers of calls the predictor has served when the run starts
EarlierCalls == {0, 8, 9, 10}

\* the learned tier after some calls: the history they left
InitHistory ==
    /\ \E n \in EarlierCalls :
        /\ _last_suggestions = HistoryAfter(n)
        /\ ml_calls = HistoryAfter(n)
    /\ _last_suggestion = NoSuggestion
    /\ cycle_count = 0
    /\ running = TRUE
    /\ issued_at = 0
    /\ checks = {}
    /\ calls = 0
    /\ trace = [op |-> "start"]
    /\ current_suggestion = NoneStr
    /\ action_callback = FALSE
    /\ hotkey_thread = HotkeyIdle
    /\ fired = <<>>
    /\ now \in StartClocks
    /\ NotifierFresh
    /\ memory_file = MemFile("missing", <<>>)
    /\ feedback_file = FeedbackFile("missing", <<>>, NoStats)

InitNotifier ==
    /\ InitGlobals
    /\ now \in StartClocks
    /\ NotifierFresh
    /\ memory_file = MemFile("missing", <<>>)
    /\ feedback_file = FeedbackFile("missing", <<>>, NoStats)

InitHeuristic ==
    /\ InitGlobals
    /\ now \in StartClocks
    /\ NotifierFresh
    /\ memory_file \in {MemFile("missing", <<>>), MemFile("list", <<>>),
                        MemFile("list", WorkflowMemory), MemFile("list", EditorBrowserMemory),
                        MemFile("list", NumberWindowMemory), MemFile("list", BareMemory)}
    /\ feedback_file = FeedbackFile("missing", <<>>, NoStats)

InitMemory ==
    /\ InitGlobals
    /\ now \in StartClocks
    /\ NotifierFresh
    /\ memory_file \in {MemFile("missing", <<>>), MemFile("garbage", <<>>),
                        MemFile("nonlist", <<>>), MemFile("list", WorkflowMemory),
                        MemFile("list", MixedMemory), MemFile("list", EditorBrowserMemory)}
                       \cup {MemFile("list", m) : m \in InvalidEntryMemories}
    /\ feedback_file = FeedbackFile("missing", <<>>, NoStats)

(***************************************************************************)
(* main.py: one iteration of the loop of main().  The exception of a cycle *)
(* is caught and printed; the sleep is part of the delay of the next one.  *)
(***************************************************************************)
CycleInput(delay, ctx, disk, ml, draw, llm, r, ui) ==
    [delay |-> delay, ctx |-> ctx, disk |-> disk, ml |-> ml, draw |-> draw, llm |-> llm, r |-> r,
     ui |-> ui]

\* the UI collaborators in one cycle: show_suggestion raises, the tray
\* exists (initialize_tray gave one), tray.update_suggestion raises
UI(notify_raises, tray, tray_raises) ==
    [notify_raises |-> notify_raises, tray |-> tray, tray_raises |-> tray_raises]

\* a loop body whose tray update is not guarded: the loop property has to
\* tell it from LoopBody
LoopBodyUnguardedTray(raised_in, ui) ==
    IF raised_in # ""
    THEN [caught |-> << "cycle" >>, escaped |-> FALSE]
    ELSE [caught |-> IF ui.notify_raises THEN << "notification" >> ELSE <<>>,
          escaped |-> ui.tray /\ ui.tray_raises]

\* the body of the loop (main.py:91-109) after run_complete_cycle: the
\* except clauses that take an exception, in order, and whether one leaves
\* the body.  What run_complete_cycle raises skips the UI and is taken at
\* line 108; the notifier and the tray have their own clauses (99, 106).
LoopBody(raised_in, ui) ==
    IF raised_in # ""
    THEN [caught |-> << "cycle" >>, escaped |-> FALSE]
    ELSE [caught |-> (IF ui.notify_raises THEN << "notification" >> ELSE <<>>)
                     \o (IF ui.tray /\ ui.tray_raises THEN << "tray" >> ELSE <<>>),
          escaped |-> FALSE]

MainLoop(inputs, max_cycles) ==
    /\ running
    /\ cycle_count < max_cycles
    /\ \E inp \in inputs :
        \E res \in {run_complete_cycle(_last_suggestion, feedback_file, memory_file,
                        _last_suggestions, now + inp.delay, inp.ctx, inp.disk, inp.ml,
                        inp.draw, inp.llm, inp.r)} :
            /\ cycle_count' = cycle_count + 1
            /\ now' = res.clock
            /\ _last_suggestion' = res.last
            /\ feedback_file' = res.fbfile
            /\ memory_file' = res.memfile
            /\ _last_suggestions' = res.history
            /\ issued_at' = IF res.raised_in = "" /\ res.suggestion # "" THEN res.clock
                            ELSE IF res.last = NoSuggestion THEN 0 ELSE issued_at
            /\ checks' = IF res.fb.outcome # "nothing"
                            /\ \A c \in checks : c.timestamp # _last_suggestion.timestamp
                         THEN checks \cup {[timestamp |-> _last_suggestion.timestamp,
                                            age |-> now + inp.delay - issued_at]}
                         ELSE checks
            /\ ml_calls' = IF res.ml.called THEN Append(ml_calls, res.ml.chosen) ELSE ml_calls
            /\ trace' = [op |-> "cycle", inp |-> inp, clock |-> now + inp.delay,
                         age |-> now + inp.delay - issued_at,
                         last |-> _last_suggestion, fbfile |-> feedback_file,
                         memfile |-> memory_file, res |-> res,
                         body |-> LoopBody(res.raised_in, inp.ui)]
            /\ running' = ~LoopBody(res.raised_in, inp.ui).escaped
            /\ \E shown \in {IF res.raised_in = "" /\ ~inp.ui.notify_raises
                              THEN send_notification(last_notification_time, res.clock,
                                                     "Console", TRUE)
                              ELSE [ret |-> FALSE, last |-> last_notification_time,
                                    delivered |-> "nothing"]} :
                /\ last_notification_time' = shown.last
                /\ accepted' = IF shown.ret THEN Append(accepted, res.clock) ELSE accepted
            /\ UNCHANGED <<calls, hotkey_vars>>

\* Ctrl-C (or Exit in the tray menu): KeyboardInterrupt is no Exception, so
\* it passes line 108 and is taken at line 114, outside the loop
KeyboardInterrupt ==
    /\ running
    /\ running' = FALSE
    /\ trace' = [op |-> "interrupt"]
    /\ UNCHANGED <<notifier_vars, hotkey_vars>>
    /\ UNCHANGED <<now, memory_file, feedback_file, _last_suggestion, _last_suggestions,
                   cycle_count, issued_at, checks, ml_calls, calls>>

\* the inputs of the feedback specification: the learned tier is not
\* installed and the LLM times out; the window, the delay and the disk vary
FeedbackInputs ==
    {CycleInput(d, Context(w, FilesSome, ProcessesCode), disk, MLRun(FALSE, <<>>), FALSE,
                LLMTimeout, 0, UI(FALSE, TRUE, FALSE)) :
        d \in Delays, w \in {WindowCode, WindowMail},
        disk \in {AllOk, Disk("ok", "open_fails", "ok"), Disk("ok", "dump_fails", "ok"),
                  Disk("dump_fails", "ok", "ok"), Disk("ok", "ok", "open_fails")}}

\* the inputs of the tier specification: the disk works and the cycles are
\* ten seconds apart; the context, the two external tiers and the random
\* choice vary (the diversification draw varies in the direct calls)
TierInputs ==
    {CycleInput(10000, ctx, AllOk, ml, draw, llm, r, UI(FALSE, TRUE, FALSE)) :
        ctx \in {Context(WindowCode, FilesSome, ProcessesCode),
                 Context(WindowNotes, FilesSome, ProcessesPlain)},
        ml \in MLRuns, draw \in {FALSE}, llm \in LLMRuns, r \in 0..1}

\* the inputs of the loop specification: the disk and the UI fail
LoopInputs ==
    {CycleInput(10000, Context(WindowCode, FilesSome, ProcessesCode), disk, MLRun(FALSE, <<>>),
                FALSE, LLMTimeout, 0, ui) :
        disk \in {AllOk, Disk("ok", "open_fails", "ok"), Disk("ok", "ok", "open_fails")},
        ui \in {UI(FALSE, TRUE, FALSE), UI(TRUE, TRUE, FALSE), UI(FALSE, TRUE, TRUE),
                UI(FALSE, FALSE, FALSE)}}

(***************************************************************************)
(* Direct calls                                                            *)
(***************************************************************************)
\* generate_suggestion_from_prediction(prediction, current_window)
GenerateSuggestion ==
    /\ calls < MaxMLCalls
    /\ \E prediction \in Predictions, window \in {WindowCode, "Chrome"}, draw \in BOOLEAN :
        \E res \in {generate_suggestion_from_prediction(prediction, window,
                        _last_suggestions, draw, 0)} :
            /\ _last_suggestions' = res.history
            /\ ml_calls' = Append(ml_calls, res.chosen)
            /\ calls' = calls + 1
            /\ trace' = [op |-> "generate", prediction |-> prediction, window |-> window,
                         draw |-> draw, history |-> _last_suggestions,
                         calls_before |-> ml_calls, res |-> res]
            /\ UNCHANGED <<notifier_vars, hotkey_vars>>
            /\ UNCHANGED <<now, memory_file, feedback_file, _last_suggestion, cycle_count, running,
                           issued_at, checks>>

\* the pending app name and the window observed ten seconds later: equal
\* names, one name inside the other, names that agree in more than, exactly
\* and less than 80% of the positions, short names, empty names
MatchCases ==
    {<<a, w>> : a \in {"chrome", "visual studio code", "vscode"},
                w \in {"chrome", "Google Chrome - New Tab", "Visual Studio Code - main.py",
                       "vscode", "firefox", ""}}
    \cup {<<"photoshap", "photoshop">>, <<"chrum", "chrom">>, <<"chrome", "chrom">>,
          <<"abd", "abc">>, <<"abcd", "abcf">>, <<"notepad.exe", "Notepad">>,
          <<"", "chrome">>, <<".", "chrome">>, <<".", "...">>, <<"slack", "...">>,
          <<"firefox", "Firefox: Home">>, <<"firefox", "firebox">>,
          <<"microsoft edge", "Edge [InPrivate]">>}

\* record_suggestion_feedback(current_window), called ten seconds after a
\* suggestion with the given app name was stored
RecordFeedback ==
    /\ calls < MaxFeedbackCalls
    /\ \E case \in MatchCases :
        \E res \in {record_suggestion_feedback(
                        [text |-> Str("Would you like to open it?"), app_name |-> Str(case[1]),
                         timestamp |-> strftime(now)],
                        feedback_file, case[2], now + 10000, "ok", "ok")} :
            /\ feedback_file' = res.file
            /\ _last_suggestion' = res.last
            /\ now' = now + 10000
            /\ calls' = calls + 1
            /\ trace' = [op |-> "record_feedback", app_name |-> case[1], window |-> case[2],
                         res |-> res]
            /\ UNCHANGED <<notifier_vars, hotkey_vars>>
            /\ UNCHANGED <<memory_file, _last_suggestions, cycle_count, running, issued_at,
                           checks, ml_calls>>

\* record_suggestion_feedback(current_window) ten seconds after a
\* suggestion was stored, the writes of load_feedback_data and
\* save_feedback_data succeeding or failing
RecordOnDisk ==
    /\ calls < MaxStoreCalls
    /\ \E window \in {"chrome", "firefox"}, wl \in WriteOutcomes, ws \in WriteOutcomes :
        \E res \in {record_suggestion_feedback(
                        [text |-> Str("Would you like to open it?"), app_name |-> Str("chrome"),
                         timestamp |-> strftime(now)],
                        feedback_file, window, now + 10000, wl, ws)} :
            /\ feedback_file' = res.file
            /\ _last_suggestion' = res.last
            /\ now' = now + 10000
            /\ calls' = calls + 1
            /\ trace' = [op |-> "record_on_disk", window |-> window, wl |-> wl, ws |-> ws,
                         before |-> feedback_file,
                         loaded |-> load_feedback_data(feedback_file, wl).data, res |-> res]
            /\ UNCHANGED <<notifier_vars, hotkey_vars>>
            /\ UNCHANGED <<memory_file, _last_suggestions, cycle_count, running, issued_at,
                           checks, ml_calls>>

\* names given to normalize_app_name: stacked extensions, repeated
\* " - <app>" suffixes, punctuation, runs of whitespace, upper case
AppNames ==
    {"a.py.json", "a.json.py", "x.py.py", "index.html.js.md", "Main.PY", "setup.exe",
     "notes.txt - Notepad", "x - Notepad - Word", "report - word - word",
     "A - Firefox - Google Chrome", "main.py - Visual Studio Code", " - word",
     "  Hello,   World!  ", "C++ (v2.0)", "a_b-c.d", "a . py", "tab\tsep  x", "", "...",
     ". py", "x .txt", "Visual Studio Code"}

\* normalize_app_name(app_name)
NormalizeAppName ==
    /\ \E app_name \in AppNames :
        trace' = [op |-> "normalize_app_name", app_name |-> app_name,
                  ret |-> normalize_app_name(app_name)]
    /\ UNCHANGED <<notifier_vars, hotkey_vars>>
    /\ UNCHANGED <<now, memory_file, feedback_file, _last_suggestion, _last_suggestions,
                   cycle_count, running, issued_at, checks, ml_calls, calls>>

\* window titles: every pattern alone, several patterns at once, none
WindowTitles ==
    {"main.py - Visual Studio Code", "a - b - c", "Inbox (3) - Gmail", "x: y - z",
     "Slack [away]", "Chrome (beta): tab", "App: doc (x)", " lead (x)", "(x)", "a (b",
     "Terminal: bash", "Notes", "two words", "", "   ", " - x", "x - ", "a -b", "a:b",
     "  x  - y "}

\* extract_app_name(window_title) at the three call sites
ExtractAppName ==
    /\ \E window_title \in WindowTitles :
        trace' = [op |-> "extract_app_name", window_title |-> window_title,
                  ret |-> extract_app_name(window_title),
                  analysis |-> extract_application_from_window(window_title),
                  predictor |-> predictor_extract_app_name(window_title)]
    /\ UNCHANGED <<notifier_vars, hotkey_vars>>
    /\ UNCHANGED <<now, memory_file, feedback_file, _last_suggestion, _last_suggestions,
                   cycle_count, running, issued_at, checks, ml_calls, calls>>

\* suggestion texts: the heuristic and learned templates, shortcut phrases,
\* file names, domains, pronouns, texts for several rules and for none
SuggestionTexts ==
    {"Switch to Visual Studio Code to continue your project.",
     "Try pressing ctrl+shift+p for the command palette.",
     "You often visit github.com after coding.",
     "Press ctrl+shift+p to open the palette", "Use ctrl + c to copy", "press the enter key",
     "Try alt+tab+x+y", "Because tab is faster", "Try opening setup.exe", "Use end",
     "Open chrome", "Open chrome to check your mail", "Switch to Slack", "Would you like to open it?", "open it now?",
     "Maybe open that", "open this. then use it", "Open ...", "you could reopen Notepad",
     "Chrome next. Ready to switch?", "ready to switch?",
     "You sometimes use main.py in this context. Would you like to open it?",
     "You sometimes use Slack in this context.", "Run setup.exe to install",
     "config.json changed", "Consider github.com", "Visit docs.python.org today",
     "news.ycombinator.com", "see my-site.dev/docs", ".com", "Keyboard tip", "Hello", "",
     "Use keyboard shortcuts for fast code navigation.",
     "Your workflow typically continues with Chrome (with 75.0% confidence). Open it now?"}

\* extract_action_from_suggestion(suggestion)
ExtractAction ==
    /\ \E suggestion \in SuggestionTexts :
        trace' = [op |-> "extract_action", suggestion |-> suggestion,
                  ret |-> extract_action_from_suggestion(suggestion)]
    /\ UNCHANGED <<notifier_vars, hotkey_vars>>
    /\ UNCHANGED <<now, memory_file, feedback_file, _last_suggestion, _last_suggestions,
                   cycle_count, running, issued_at, checks, ml_calls, calls>>

\* the actions given to execute_action: None, dicts without type, the four
\* types with the targets of the extractor, a type the executor does not
\* know
ActionInfos ==
    {[dict |-> FALSE, type |-> AbsentStr, target |-> AbsentStr],
     [dict |-> TRUE, type |-> AbsentStr, target |-> AbsentStr],
     [dict |-> TRUE, type |-> NoneStr, target |-> NoneStr],
     [dict |-> TRUE, type |-> Str("open_file"), target |-> Str("report.docx")]}
    \cup {[dict |-> TRUE, type |-> Str("open_app"), target |-> t] :
            t \in {Str("chrome"), Str("Visual Studio Code"), Str("setup.exe"), Str("main.py"),
                   Str("slack"), Str(""), NoneStr}}
    \cup {[dict |-> TRUE, type |-> Str("open_website"), target |-> t] :
            t \in {Str("github.com"), Str("")}}
    \cup {[dict |-> TRUE, type |-> Str(type), target |-> Str("ctrl+shift+p")] :
            type \in {"keyboard_shortcut", "show_tip"}}

\* execute_action(action_info)
ExecuteAction ==
    /\ \E action_info \in ActionInfos, popen \in {"ok", "not_found", "other_error"},
          py \in {"ok", "absent"}, browser \in {"ok", "raises"} :
        trace' = [op |-> "execute_action", action_info |-> action_info, popen |-> popen,
                  py |-> py, browser |-> browser,
                  ret |-> execute_action(action_info, popen, py, browser)]
    /\ UNCHANGED <<notifier_vars, hotkey_vars>>
    /\ UNCHANGED <<now, memory_file, feedback_file, _last_suggestion, _last_suggestions,
                   cycle_count, running, issued_at, checks, ml_calls, calls>>

\* get_smart_suggestion(window, files, processes)
GetSmartSuggestion ==
    /\ \E window \in {WindowCode, WindowMail, WindowNotes, "Editor - file.py", ""},
          processes \in {ProcessesCode, ProcessesPlain, <<>>},
          r \in 0..3 :
        trace' = [op |-> "get_smart_suggestion", window |-> window, processes |-> processes,
                  memfile |-> memory_file,
                  ret |-> get_smart_suggestion(window, FilesSome, processes, memory_file, now, r)]
    /\ UNCHANGED <<notifier_vars, hotkey_vars>>
    /\ UNCHANGED <<now, memory_file, feedback_file, _last_suggestion, _last_suggestions,
                   cycle_count, running, issued_at, checks, ml_calls, calls>>

\* HotkeyManager.set_action_callback(callback): execute_action or None
SetActionCallback ==
    /\ calls < MaxHotkeyCalls
    /\ \E callback \in BOOLEAN :
        /\ action_callback' = callback
        /\ trace' = [op |-> "set_action_callback", callback |-> callback]
    /\ calls' = calls + 1
    /\ UNCHANGED <<notifier_vars, current_suggestion, hotkey_thread, fired>>
    /\ UNCHANGED <<now, memory_file, feedback_file, _last_suggestion, _last_suggestions,
                   cycle_count, running, issued_at, checks, ml_calls>>

\* HotkeyManager.update_current_suggestion(suggestion), also while the
\* callback runs
UpdateCurrentSuggestion ==
    /\ calls < MaxHotkeyCalls
    /\ \E suggestion \in HotkeySuggestions :
        /\ current_suggestion' = suggestion
        /\ fired' = IF hotkey_thread.line = 0 THEN fired
                    ELSE [fired EXCEPT ![Len(fired)].seen = @ \cup {suggestion}]
        /\ trace' = [op |-> "update_current_suggestion", suggestion |-> suggestion]
    /\ calls' = calls + 1
    /\ UNCHANGED <<notifier_vars, action_callback, hotkey_thread>>
    /\ UNCHANGED <<now, memory_file, feedback_file, _last_suggestion, _last_suggestions,
                   cycle_count, running, issued_at, checks, ml_calls>>

\* the hotkey is pressed: the keyboard listener calls _hotkey_callback
HotkeyPressed ==
    /\ hotkey_thread.line = 0
    /\ Len(fired) < MaxFirings
    /\ hotkey_thread' = [HotkeyIdle EXCEPT !.line = 55]
    /\ fired' = Append(fired, Firing(current_suggestion))
    /\ trace' = [op |-> "hotkey"]
    /\ UNCHANGED <<notifier_vars, current_suggestion, action_callback>>
    /\ UNCHANGED <<now, memory_file, feedback_file, _last_suggestion, _last_suggestions,
                   cycle_count, running, issued_at, checks, ml_calls, calls>>

\* the run of _hotkey_callback ends
HotkeyReturn(how, firing) ==
    /\ hotkey_thread' = HotkeyIdle
    /\ fired' = [fired EXCEPT ![Len(fired)] = [firing EXCEPT !.ended = how]]

\* the run goes on at the line
HotkeyGoto(line, firing) ==
    /\ hotkey_thread' = [hotkey_thread EXCEPT !.line = line]
    /\ fired' = [fired EXCEPT ![Len(fired)] = firing]

\* one step of _hotkey_callback: each reads one attribute of the manager.
\* 55: not self.current_suggestion; 56: not self.action_callback;
\* 63: extract_action_from_suggestion(self.current_suggestion);
\* 66: if self.action_callback; 67: self.action_callback(action_info),
\* the callback being execute_action, whose Popen may fail; 69: the report
\* with self.current_suggestion
HotkeyStep ==
    /\ hotkey_thread.line # 0
    /\ LET firing == fired[Len(fired)]
       IN  \/ /\ hotkey_thread.line = 55
              /\ IF ~Truthy(current_suggestion)
                 THEN HotkeyReturn("no_suggestion",
                                   [firing EXCEPT !.checked = current_suggestion])
                 ELSE HotkeyGoto(56, [firing EXCEPT !.checked = current_suggestion])
           \/ /\ hotkey_thread.line = 56
              /\ IF ~action_callback
                 THEN HotkeyReturn("no_callback", firing)
                 ELSE HotkeyGoto(63, [firing EXCEPT !.callback = action_callback])
           \/ /\ hotkey_thread.line = 63
              /\ \E extracted \in {ExtractFromSlot(firing.checked, current_suggestion)} :
                    IF extracted.raised
                    THEN HotkeyReturn("extract_raised",
                                      [firing EXCEPT !.read = current_suggestion])
                    ELSE /\ hotkey_thread' = [hotkey_thread EXCEPT !.line = 66,
                                                                   !.action_info = extracted]
                         /\ fired' = [fired EXCEPT ![Len(fired)].read = current_suggestion]
           \/ /\ hotkey_thread.line = 66
              /\ IF ~action_callback
                 THEN HotkeyReturn("done", firing)
                 ELSE HotkeyGoto(67, firing)
           \/ /\ hotkey_thread.line = 67
              /\ IF ~action_callback
                 THEN HotkeyReturn("not_callable", firing)
                 ELSE \E popen \in {"ok", "other_error"} :
                      \E result \in {execute_action(AsActionInfo(hotkey_thread.action_info),
                                                    popen, "ok", "ok")} :
                        IF result.raised
                        THEN HotkeyReturn("callback_raised",
                                [firing EXCEPT !.passed = Append(@, hotkey_thread.action_info)])
                        ELSE /\ hotkey_thread' = IF result.info_only THEN HotkeyIdle
                                                  ELSE [hotkey_thread EXCEPT !.line = 72]
                             /\ fired' = [fired EXCEPT ![Len(fired)] =
                                    [firing EXCEPT !.passed = Append(@, hotkey_thread.action_info),
                                                   !.ended = IF result.info_only THEN "done"
                                                             ELSE ""]]
           \/ /\ hotkey_thread.line = 72
              /\ HotkeyReturn("done", [firing EXCEPT !.reported = current_suggestion])
    /\ trace' = [op |-> "hotkey_step", line |-> hotkey_thread.line]
    /\ UNCHANGED <<notifier_vars, current_suggestion, action_callback>>
    /\ UNCHANGED <<now, memory_file, feedback_file, _last_suggestion, _last_suggestions,
                   cycle_count, running, issued_at, checks, ml_calls, calls>>

\* show_status(message), show_suggestion(suggestion) or show_error(message)
\* on the one Notifier of the module, delay after the request before
ShowNotification ==
    /\ calls < MaxNotifyCalls
    /\ \E kind \in DOMAIN NotificationTitles, delay \in NotifyDelays,
          system \in {"Windows", "Console"}, toast_ok \in BOOLEAN :
        \E res \in {send_notification(last_notification_time, now + delay, system, toast_ok)} :
            /\ now' = now + delay
            /\ last_notification_time' = res.last
            /\ accepted' = IF res.ret THEN Append(accepted, now + delay) ELSE accepted
            /\ calls' = calls + 1
            /\ trace' = [op |-> "send_notification", kind |-> kind,
                         title |-> NotificationTitles[kind], clock |-> now + delay,
                         before |-> last_notification_time, res |-> res]
            /\ UNCHANGED hotkey_vars
            /\ UNCHANGED <<memory_file, feedback_file, _last_suggestion, _last_suggestions,
                           cycle_count, running, issued_at, checks, ml_calls>>

\* inference_engine(file_path)
MakeInference ==
    /\ \E r \in 0..3 :
        trace' = [op |-> "make_inference", memfile |-> memory_file,
                  ret |-> inference_engine(memory_file, now, r)]
    /\ UNCHANGED <<notifier_vars, hotkey_vars>>
    /\ UNCHANGED <<now, memory_file, feedback_file, _last_suggestion, _last_suggestions,
                   cycle_count, running, issued_at, checks, ml_calls, calls>>

\* log_to_memory(window, recent_files, processes)
LogToMemory ==
    /\ calls < MaxMemoryCalls
    /\ \E window \in {Str(WindowCode), Str(""), NoneStr, IntStr},
          recent_files \in {List(FilesSome), List(<<>>), NoneList},
          processes \in {List(ProcessesCode), List(<<>>), NoneList},
          w \in WriteOutcomes :
        \E res \in {log_to_memory(memory_file, window, recent_files, processes, now + 10000, w)} :
            /\ memory_file' = res.file
            /\ now' = now + 10000
            /\ calls' = calls + 1
            /\ trace' = [op |-> "log_to_memory", window |-> window, recent_files |-> recent_files,
                         processes |-> processes, memfile |-> memory_file, res |-> res]
            /\ UNCHANGED <<notifier_vars, hotkey_vars>>
            /\ UNCHANGED <<feedback_file, _last_suggestion, _last_suggestions, cycle_count, running,
                           issued_at, checks, ml_calls>>

\* load_memory()
LoadMemory ==
    /\ calls < MaxMemoryCalls
    /\ calls' = calls + 1
    /\ trace' = [op |-> "load_memory", memfile |-> memory_file, ret |-> load_memory(memory_file)]
    /\ UNCHANGED <<notifier_vars, hotkey_vars>>
    /\ UNCHANGED <<now, memory_file, feedback_file, _last_suggestion, _last_suggestions,
                   cycle_count, running, issued_at, checks, ml_calls>>

\* clean_memory_file(MEMORY_FILE)
CleanMemoryFile ==
    /\ calls < MaxMemoryCalls
    /\ \E iterable \in BOOLEAN, w \in WriteOutcomes :
        \E res \in {clean_memory_file(memory_file, iterable, w)} :
            /\ memory_file' = res.file
            /\ calls' = calls + 1
            /\ trace' = [op |-> "clean_memory_file", memfile |-> memory_file, res |-> res]
            /\ UNCHANGED <<notifier_vars, hotkey_vars>>
            /\ UNCHANGED <<now, feedback_file, _last_suggestion, _last_suggestions,
                           cycle_count, running, issued_at, checks, ml_calls>>

\* analyze_patterns()
AnalyzePatterns ==
    /\ calls < MaxMemoryCalls
    /\ calls' = calls + 1
    /\ trace' = [op |-> "analyze_patterns", memfile |-> memory_file,
                 raised |-> analyze_patterns_raises(memory_file)]
    /\ UNCHANGED <<notifier_vars, hotkey_vars>>
    /\ UNCHANGED <<now, memory_file, feedback_file, _last_suggestion, _last_suggestions,
                   cycle_count, running, issued_at, checks, ml_calls>>

\* analyze_user_patterns(load_memory(), window, files, processes)
AnalyzeUserPatterns ==
    /\ calls < MaxMemoryCalls
    /\ calls' = calls + 1
    /\ \E current_window \in {"Editor - file.py", "Browser - tab", WindowCode, WindowMail} :
        \E memory_data \in {load_memory(memory_file)} :
        \E raised \in {analyze_user_patterns_raises(memory_data)} :
            trace' = [op |-> "analyze_user_patterns", memfile |-> memory_file,
                      current_window |-> current_window, raised |-> raised,
                      empty |-> memory_data = <<>>,
                      next_apps |->
                          IF raised THEN <<>>
                          ELSE next_apps(memory_data,
                                         extract_application_from_window(current_window)),
                      previous_apps |->
                          IF raised THEN <<>>
                          ELSE previous_apps(memory_data,
                                             extract_application_from_window(current_window))]
    /\ UNCHANGED <<notifier_vars, hotkey_vars>>
    /\ UNCHANGED <<now, memory_file, feedback_file, _last_suggestion, _last_suggestions,
                   cycle_count, running, issued_at, checks, ml_calls>>

(***************************************************************************)
(* Specifications                                                          *)
(***************************************************************************)
Next == MainLoop(FeedbackInputs, MaxCycles)

\* the feedback loop: cycles with a failing disk and long pauses
Spec == Init /\ [][Next]_vars

NextTiers == MainLoop(TierInputs, MaxTierCycles)

\* the predictor chain: cycles over the outcomes of the three tiers
SpecTiers == InitTiers /\ [][NextTiers]_vars

NextML == GenerateSuggestion

\* the learned tier: a sequence of calls of the suggestion generator
SpecML == InitML /\ [][NextML]_vars

\* the learned tier with a history: calls after the earlier ones
SpecHistory == InitHistory /\ [][NextML]_vars

NextMemory ==
    LogToMemory \/ LoadMemory \/ AnalyzePatterns \/ AnalyzeUserPatterns \/ CleanMemoryFile

\* the behavior memory: calls of the store and of its consumers
SpecMemory == InitMemory /\ [][NextMemory]_vars

NextLoop == KeyboardInterrupt \/ MainLoop(LoopInputs, MaxLoopCycles)

\* the loop of main(): cycles whose steps fail, and the user's interrupt.
\* "while True" with a sleep of ten seconds: a loop that was not left does
\* not stand still, it runs its next cycle unless the user stops it first.
SpecLoop == InitLoop /\ [][NextLoop]_vars /\ WF_vars(NextLoop)

\* the feedback match: direct calls of record_suggestion_feedback
SpecMatch == InitML /\ [][RecordFeedback]_vars

NextPure == NormalizeAppName \/ ExtractAppName \/ ExtractAction \/ ExecuteAction

\* the functions without state: direct calls on chosen arguments
SpecPure == InitML /\ [][NextPure]_vars

\* the feedback store: records written through failing loads and saves
SpecStore == InitML /\ [][RecordOnDisk]_vars

NextHotkey == SetActionCallback \/ UpdateCurrentSuggestion \/ HotkeyPressed \/ HotkeyStep

\* the hotkey: the callback thread interleaved with the main thread
SpecHotkey == InitML /\ [][NextHotkey]_vars

NextNotifier == ShowNotification

\* the notifier: requests of the three kinds at chosen distances
SpecNotifier == InitNotifier /\ [][NextNotifier]_vars

NextHeuristic == GetSmartSuggestion \/ MakeInference

\* the heuristic tier: direct calls on the stores found on disk
SpecHeuristic == InitHeuristic /\ [][NextHeuristic]_vars

(***************************************************************************)
(* Properties of the feedback loop (Spec)                                  *)
(***************************************************************************)
\* the last step was a cycle entered with a suggestion pending
PendingAtEntry ==
    /\ trace.op = "cycle"
    /\ Truthy(trace.last.text)
    /\ trace.last.timestamp.t # "none"

\* the records of the feedback store, none when it cannot be read
Records == IF feedback_file.kind = "ok" THEN feedback_file.suggestions ELSE <<>>

\* the current window of the last cycle matches the app of the pending
\* suggestion
WindowMatchesPending ==
    FeedbackMatch(normalize_app_name(extract_app_name(trace.inp.ctx.window)),
                  normalize_app_name(trace.last.app_name.s))

\* C1: when record_suggestion_feedback runs on a pending suggestion that
\* was issued more than 300 seconds ago, it appends no record, leaves the
\* counters (the whole feedback store) as they were and clears the pending
\* slot, whether or not the current window matches.
C1_StaleSuggestionDiscarded ==
    (PendingAtEntry /\ trace.age > FeedbackWindow * 1000)
        => /\ ~trace.res.fb.raised
           /\ trace.res.fb.file = trace.fbfile
           /\ feedback_file = trace.fbfile
           /\ trace.res.fb.last = NoSuggestion

\* a suggestion older than 300 seconds met a window that matches it, with
\* records already in the store
C1_Witness ==
    /\ PendingAtEntry
    /\ trace.age > FeedbackWindow * 1000
    /\ WindowMatchesPending
    /\ trace.fbfile.kind = "ok"
    /\ trace.res.fb.outcome = "timed_out"

\* C2: every suggestion stored in the pending slot has exactly one record
\* if its first feedback check came at most 300 seconds after it was
\* issued and none if the check came later, whatever the writes and the
\* cycles in between did.
C2_ExactlyOneRecord ==
    \A c \in checks :
        Cardinality({i \in DOMAIN Records : Records[i].timestamp = c.timestamp})
            = IF c.age <= FeedbackWindow * 1000 THEN 1 ELSE 0

\* C3: a call of record_suggestion_feedback entered with a suggestion
\* pending ends with the pending slot empty, in every outcome.
C3_PendingAlwaysCleared ==
    PendingAtEntry => trace.res.fb.last = NoSuggestion

\* the text holds none of "open <phrase>", "switch to <phrase>", "use <phrase>"
NamesNoApp(text) == FirstVerb(lower(text)) = ""

\* the last step was a cycle that stored a suggestion naming no app
StoredWithoutApp(t) ==
    /\ t.op = "cycle"
    /\ t.res.raised_in = ""
    /\ t.res.suggestion # ""
    /\ NamesNoApp(t.res.suggestion)

TiersInvoked == [i \in DOMAIN trace.res.tiers |-> trace.res.tiers[i].tier]

\* C4: a cycle consults the learned predictor, then the LLM, then the
\* heuristic ranker, a later tier only when every earlier one raised or
\* returned nothing, and no exception of a tier leaves run_complete_cycle.
C4_TiersInOrderAndContained ==
    (trace.op = "cycle" /\ trace.res.fb.outcome # "raised" /\ ~trace.res.logged.raised)
        => /\ trace.res.raised_in = ""
           /\ TiersInvoked \in {<<"ml">>, <<"ml", "llm">>, <<"ml", "llm", "heuristic">>}
           /\ \A i \in DOMAIN trace.res.tiers :
                i < Len(trace.res.tiers) => trace.res.tiers[i].out # "text"

\* C5: when the learned predictor gives nothing and the LLM times out, is
\* unavailable or has its reply rejected, the cycle returns what
\* get_smart_suggestion returns for the same snapshot, memory and random
\* choice.
C5_FallthroughEqualsHeuristic ==
    (/\ trace.op = "cycle"
     /\ trace.res.raised_in = ""
     /\ trace.res.tiers # <<>>
     /\ trace.res.tiers[1].out # "text"
     /\ PhiReply(trace.inp.llm).failed)
        => trace.res.suggestion
            = get_smart_suggestion(trace.inp.ctx.window, trace.inp.ctx.files,
                                   trace.inp.ctx.processes, trace.res.memfile,
                                   trace.res.clock, trace.inp.r).text

(***************************************************************************)
(* Properties of the learned tier (SpecML)                                 *)
(***************************************************************************)
\* the confidences a text can be worded for
Confidences == {p[i].confidence : <<p, i>> \in {<<q, j>> \in Predictions \X (1..2) : j <= Len(q)}}

\* the text is one of the templates for the app, in the band of the
\* confidence
NamesWithBand(text, candidate, window) ==
    \E k \in 1..3 :
        text = SuggestionTemplates(candidate.app_name, candidate.confidence,
                                   extract_app_name(window))[k]

\* the text is one of the templates for the app, in any band
Names(text, app_name, window) ==
    \E confidence \in Confidences : NamesWithBand(text, Candidate(app_name, confidence), window)

\* the last step was a call of the generator whose top candidate was the
\* chosen app of one of the three calls before it
TopChosenRecently ==
    /\ trace.op = "generate"
    /\ trace.prediction # <<>>
    /\ InSeq(trace.prediction[1].app_name, LastN(trace.calls_before, 3))

\* C6, as stated: when the top candidate was chosen in one of the last 3
\* calls, the call returns a suggestion naming the second candidate, or
\* None when there is no second candidate.
C6_AsStated ==
    TopChosenRecently
        => /\ ~Names(trace.res.text, trace.prediction[1].app_name, trace.window)
           /\ IF Len(trace.prediction) > 1
              THEN NamesWithBand(trace.res.text, trace.prediction[2], trace.window)
              ELSE trace.res.text = ""

\* C6: when the top candidate was chosen in one of the last 3 calls, the
\* call does not name it: it names the second candidate if there is one
\* with a confidence of at least 20, and returns None otherwise.
C6_NoRepetition ==
    TopChosenRecently
        => /\ ~Names(trace.res.text, trace.prediction[1].app_name, trace.window)
           /\ IF Len(trace.prediction) > 1 /\ trace.prediction[2].confidence >= 20
              THEN NamesWithBand(trace.res.text, trace.prediction[2], trace.window)
              ELSE trace.res.text = ""

\* the top candidate was chosen three calls ago, not since, and is
\* suppressed now
C6_Witness ==
    /\ TopChosenRecently
    /\ Len(trace.calls_before) >= 3
    /\ trace.calls_before[Len(trace.calls_before) - 2] = trace.prediction[1].app_name
    /\ ~InSeq(trace.prediction[1].app_name, LastN(trace.calls_before, 2))
    /\ trace.res.text = ""

\* the call got past the repetition check: there is a prediction, and its
\* top app is not among the last three of the history or there is a second
\* candidate
PastRepetitionCheck ==
    /\ trace.prediction # <<>>
    /\ \/ ~InSeq(trace.prediction[1].app_name, LastN(trace.history, 3))
       \/ Len(trace.prediction) > 1

\* the app such a call settles on
AppSettledOn ==
    IF InSeq(trace.prediction[1].app_name, LastN(trace.history, 3))
    THEN trace.prediction[2].app_name
    ELSE trace.prediction[1].app_name

\* C29: _last_suggestions holds at most 10 apps, the last ones the calls
\* settled on in call order; a call that gets past the repetition check
\* appends its app once, dropping the oldest of ten, also when it returns
\* None for a confidence below 20; a call that returns None for lack of a
\* prediction or of a second candidate leaves the history as it was.
C29_HistoryOfLastTen ==
    /\ Len(_last_suggestions) <= 10
    /\ _last_suggestions = LastN(SelectSeq(ml_calls, LAMBDA app : app # ""), 10)
    /\ trace.op = "generate" =>
          IF PastRepetitionCheck
          THEN /\ _last_suggestions = LastN(Append(trace.history, AppSettledOn), 10)
               /\ ml_calls = Append(trace.calls_before, AppSettledOn)
          ELSE /\ _last_suggestions = trace.history
               /\ trace.res.text = ""

\* a call with a second candidate of confidence 15, the top app being
\* among the last three of a full history: None is returned, the second
\* app is the tenth of the history and the oldest app is gone
C29_Witness ==
    /\ trace.op = "generate"
    /\ Len(trace.history) = 10
    /\ Len(trace.prediction) > 1
    /\ InSeq(trace.prediction[1].app_name, LastN(trace.history, 3))
    /\ trace.prediction[2].confidence < 20
    /\ trace.res.text = ""
    /\ _last_suggestions = Append(Tail(trace.history), trace.prediction[2].app_name)

\* C7: when the diversification branch fires and there is a second
\* candidate, the returned text names the second candidate, in the band of
\* the second candidate's confidence.
C7_DiversificationNamesSecond ==
    (/\ trace.op = "generate"
     /\ trace.draw
     /\ Len(trace.prediction) > 1
     /\ trace.res.text # "")
        => NamesWithBand(trace.res.text, trace.prediction[2], trace.window)

\* C13: in a cycle the feedback step judges the suggestion of the previous
\* cycle against the window just captured, the snapshot is appended next,
\* the suggestion is generated from the store that holds the snapshot, and
\* the pending slot receives the new suggestion last (its timestamp is not
\* before the snapshot's); a cycle without suggestion ends with the slot
\* empty.
C13_StepsInOrder ==
    trace.op = "cycle" =>
        /\ trace.res.fb = record_suggestion_feedback(trace.last, trace.fbfile,
                              trace.inp.ctx.window, trace.clock,
                              trace.inp.disk.fb_init, trace.inp.disk.fb_save)
        /\ ~trace.res.fb.raised =>
              trace.res.logged = log_to_memory(trace.memfile, Str(trace.inp.ctx.window),
                                     List(trace.inp.ctx.files), List(trace.inp.ctx.processes),
                                     trace.clock, trace.inp.disk.mem_save)
        /\ trace.res.suggestion # "" =>
              /\ memory_file = trace.res.logged.file
              /\ memory_file.entries[Len(memory_file.entries)].timestamp = strftime(trace.clock)
              /\ _last_suggestion.text = Str(trace.res.suggestion)
              /\ _last_suggestion.timestamp = strftime(now)
              /\ now >= trace.clock
        /\ trace.res.suggestion = "" => _last_suggestion = NoSuggestion

(***************************************************************************)
(* Properties of the behavior memory (SpecMemory)                          *)
(***************************************************************************)
\* the entry passes the snapshot rule
ValidEntry(e) == e.t = "dict" /\ validate_entry(e.window, e.recent_files, e.top_processes)

\* C8: log_to_memory with an empty or missing window, file list or process
\* list returns False, does not write the store and leaves it as it was.
C8_InvalidSnapshotRejected ==
    (/\ trace.op = "log_to_memory"
     /\ ~validate_entry(trace.window, trace.recent_files, trace.processes))
        => /\ ~trace.res.raised
           /\ trace.res.ret = FALSE
           /\ ~trace.res.wrote
           /\ memory_file = trace.memfile

\* a snapshot whose only flaw is the empty process list was refused on a
\* store that holds entries
C8_Witness ==
    /\ trace.op = "log_to_memory"
    /\ Truthy(trace.window) /\ Truthy(trace.recent_files) /\ ~Truthy(trace.processes)
    /\ trace.memfile.kind = "list" /\ trace.memfile.entries # <<>>
    /\ trace.res.ret = FALSE

\* C9: entries that fail the snapshot rule are in neither what load_memory
\* returns nor what save_memory writes.
C9_InvalidEntriesExcluded ==
    /\ trace.op = "load_memory" => \A i \in DOMAIN trace.ret : ValidEntry(trace.ret[i])
    /\ (trace.op = "log_to_memory" /\ trace.res.wrote /\ ~trace.res.raised)
            => \A i \in DOMAIN memory_file.entries : ValidEntry(memory_file.entries[i])

\* C10: load_memory returns the empty sequence for a store that is missing,
\* not parseable or no list, and analyze_patterns and analyze_user_patterns
\* do not raise on what load_memory returns.
C10_LoadAndConsumersNeverFail ==
    /\ (trace.op = "load_memory" /\ trace.memfile.kind # "list") => trace.ret = <<>>
    /\ trace.op \in {"analyze_patterns", "analyze_user_patterns"} => ~trace.raised
\* the entries of the store before the call, [] for a store without a list
StoreBefore == load_memory(trace.memfile)

\* a successful call of clean_memory_file
Cleaned == trace.op = "clean_memory_file" /\ trace.res.ret

\* C11: after a successful clean_memory_file the store is the subsequence,
\* in the original order, of the entries that pass the snapshot rule; the
\* kept and removed counts add up to the original length; a second run
\* removes nothing.
C11_CleanKeepsExactlyValid ==
    Cleaned =>
        /\ memory_file = MemFile("list", SelectSeq(StoreBefore, ValidEntry))
        /\ trace.res.kept + trace.res.removed = Len(StoreBefore)
        /\ clean_memory_file(memory_file, TRUE, "ok").removed = 0

\* the sequence persisted before the call: the list of the store, nothing
\* for a store that is missing, does not parse or holds no list
PersistedBefore == IF trace.memfile.kind = "list" THEN trace.memfile.entries ELSE <<>>

\* C30: a log_to_memory that returns True leaves the store holding the
\* sequence it held before (empty for a store that is missing, does not
\* parse or holds no list), unchanged and in the same order, followed by
\* exactly one new entry: the snapshot of the call.
C30_AppendsExactlyOne ==
    (trace.op = "log_to_memory" /\ trace.res.ret) =>
        /\ memory_file.kind = "list"
        /\ Len(memory_file.entries) = Len(PersistedBefore) + 1
        /\ SubSeq(memory_file.entries, 1, Len(PersistedBefore)) = PersistedBefore
        /\ memory_file.entries[Len(memory_file.entries)]
              = Entry(strftime(now), trace.window, trace.recent_files, trace.processes)

\* a snapshot was appended to a store that holds an entry failing the
\* snapshot rule
C30_Witness ==
    /\ trace.op = "log_to_memory" /\ trace.res.ret
    /\ trace.memfile.kind = "list"
    /\ \E i \in DOMAIN trace.memfile.entries : ~ValidEntry(trace.memfile.entries[i])
    /\ Len(memory_file.entries) = Len(trace.memfile.entries) + 1

\* the pairs (i-1, i) of adjacent entries of the store of the last call
\* whose applications are prev and curr
Transitions(prev, curr) ==
    {i \in 2..Len(StoreBefore) :
        /\ HasWindow(StoreBefore[i - 1]) /\ AppOf(StoreBefore[i - 1]) = prev
        /\ HasWindow(StoreBefore[i]) /\ AppOf(StoreBefore[i]) = curr}

\* the applications seen in the store of the last call
AppsSeen == {AppOf(StoreBefore[i]) : i \in {j \in DOMAIN StoreBefore : HasWindow(StoreBefore[j])}}

\* C21: next_apps for the current app A holds, for each app it lists, the
\* number of adjacent pairs (prev, curr) with app(prev) = A and that app as
\* curr, it lists every such app when there are at most three, and
\* previous_apps is the symmetric count; for three "Editor - file.py"
\* entries followed by two "Browser - tab" entries and the current app
\* "Editor", "Browser" is first in next_apps.
C21_TransitionCounts ==
    (trace.op = "analyze_user_patterns" /\ ~trace.raised /\ ~trace.empty) =>
        LET A == extract_application_from_window(trace.current_window)
            listed(q) == {q[k][1] : k \in DOMAIN q}
        IN  /\ \A k \in DOMAIN trace.next_apps :
                    trace.next_apps[k][2] = Cardinality(Transitions(A, trace.next_apps[k][1]))
            /\ \A k \in DOMAIN trace.previous_apps :
                    trace.previous_apps[k][2] = Cardinality(Transitions(trace.previous_apps[k][1], A))
            /\ \A b \in AppsSeen :
                    (Transitions(A, b) # {} /\ Len(trace.next_apps) < 3) => b \in listed(trace.next_apps)
            /\ \A b \in AppsSeen :
                    (Transitions(b, A) # {} /\ Len(trace.previous_apps) < 3)
                        => b \in listed(trace.previous_apps)
            /\ (StoreBefore = EditorBrowserMemory /\ A = "Editor")
                    => (trace.next_apps # <<>> /\ trace.next_apps[1][1] = "Browser")

(***************************************************************************)
(* Properties of the heuristic tier (SpecHeuristic)                        *)
(***************************************************************************)
\* the text speaks of going from app A to app b: one of the four workflow
\* sentences or the "Consider preparing ..." insight
RefersToTransition(text, A, b) ==
    /\ Contains(text, b)
    /\ \/ Contains(text, "after using " \o A) \/ Contains(text, "after " \o A)
       \/ Contains(text, "switch to " \o b \o " next")
       \/ Contains(text, A \o WorkflowArrow \o b)

\* C22: a suggestion of the heuristic tier refers to a transition from
\* the current app to another app only when the memory holds at least 3
\* observations of that transition.
C22_TransitionNeedsThree ==
    (trace.op = "get_smart_suggestion" /\ ~trace.ret.raised) =>
        \A b \in AppsSeen :
            RefersToTransition(trace.ret.text, extract_application_from_window(trace.window), b)
                => Cardinality(Transitions(extract_application_from_window(trace.window), b)) >= 3

\* C23: make_inference returns a candidate whose weight is the highest
\* weight among its candidates, and make_inference and get_smart_suggestion
\* return, for every store, a text that is not empty (a suggestion or the
\* fixed sentence that there is none).
C23_TopWeightNeverEmpty ==
    /\ trace.op \in {"make_inference", "get_smart_suggestion"}
            => (~trace.ret.raised /\ trace.ret.text # "")
    /\ (trace.op = "make_inference" /\ trace.ret.suggestions # <<>>) =>
            \E k \in DOMAIN trace.ret.suggestions :
                /\ trace.ret.suggestions[k][1] = trace.ret.text
                /\ \A j \in DOMAIN trace.ret.suggestions :
                        trace.ret.suggestions[j][2] <= trace.ret.suggestions[k][2]

(***************************************************************************)
(* Properties of the feedback store (SpecStore)                            *)
(***************************************************************************)
\* the entries of the store with the given followed flag
RecordsWith(file, flag) == SelectSeq(file.suggestions, LAMBDA rec : rec.followed = flag)

\* C26: in a feedback store that started as the initial empty structure,
\* total = followed + ignored = the number of entries, followed and ignored
\* being the numbers of entries with that label; a call that records adds 1
\* to total and to exactly one of followed and ignored of the data it
\* loaded, also after a load or a save that failed.
C26_StatsMatchRecords ==
    /\ feedback_file.kind = "ok" =>
            /\ feedback_file.stats.total = feedback_file.stats.followed + feedback_file.stats.ignored
            /\ feedback_file.stats.total = Len(feedback_file.suggestions)
            /\ feedback_file.stats.followed = Len(RecordsWith(feedback_file, TRUE))
            /\ feedback_file.stats.ignored = Len(RecordsWith(feedback_file, FALSE))
    /\ (trace.op = "record_on_disk" /\ trace.ws = "ok") =>
            /\ trace.res.outcome \in {"followed", "ignored"}
            /\ feedback_file.kind = "ok"
            /\ Len(feedback_file.suggestions) = Len(trace.loaded.suggestions) + 1
            /\ feedback_file.stats.total = trace.loaded.stats.total + 1
            /\ feedback_file.stats.followed =
                    trace.loaded.stats.followed + (IF trace.res.outcome = "followed" THEN 1 ELSE 0)
            /\ feedback_file.stats.ignored =
                    trace.loaded.stats.ignored + (IF trace.res.outcome = "ignored" THEN 1 ELSE 0)
    /\ (trace.op = "record_on_disk" /\ trace.ws = "open_fails") =>
            feedback_file = load_feedback_data(trace.before, trace.wl).file

\* a third suggestion was recorded as ignored into a store that holds one
\* followed record, the save of the second one having failed
C26_Witness ==
    /\ trace.op = "record_on_disk" /\ trace.ws = "ok" /\ calls = 3
    /\ trace.res.outcome = "ignored"
    /\ feedback_file.stats = [total |-> 2, followed |-> 1, ignored |-> 1]

(***************************************************************************)
(* Properties of the hotkey (SpecHotkey)                                   *)
(***************************************************************************)
\* C25: a press of the hotkey calls the action callback at most once, and
\* only when the check of line 55 found a suggestion and a callback; the
\* action passed is the extraction of the one value of the suggestion slot
\* the run read at line 63, a value the slot held during the run, never a
\* combination of two suggestions.
C25_OneActionFromOneRead ==
    \A k \in DOMAIN fired :
        /\ Len(fired[k].passed) <= 1
        /\ fired[k].ended \in {"no_suggestion", "no_callback", "extract_raised", "not_callable"}
                => fired[k].passed = <<>>
        /\ fired[k].passed # <<>> =>
                /\ Truthy(fired[k].checked) /\ fired[k].callback
                /\ fired[k].read \in fired[k].seen
                /\ fired[k].passed[1] = extract_action_from_suggestion(SlotText(fired[k].read))

\* a run passed the action of the suggestion it read although the main
\* thread replaced the suggestion checked before, and reported another one
C25_Witness ==
    \E k \in DOMAIN fired :
        /\ fired[k].ended = "done" /\ fired[k].passed # <<>>
        /\ fired[k].checked # fired[k].read
        /\ fired[k].reported # fired[k].read

(***************************************************************************)
(* Properties of the notifier (SpecNotifier)                               *)
(***************************************************************************)
\* the notifications accepted before the last request
AcceptedBefore ==
    IF trace.res.ret THEN SubSeq(accepted, 1, Len(accepted) - 1) ELSE accepted

\* the last request came at least the cooldown after the last accepted one
CooldownOver ==
    \/ AcceptedBefore = <<>>
    \/ trace.clock - AcceptedBefore[Len(AcceptedBefore)] >= notification_cooldown * 1000

StepRaised ==
    /\ trace.op = "cycle"
    /\ trace.res.raised_in # "" \/ trace.body.caught # <<>>

\* C12: a cycle with a step that raises leaves the loop running, only the
\* user's interrupt ends the loop, and after cycle n with a raising step
\* cycle n+1 is executed unless the user interrupts.
C12_ErrorsDoNotEndLoop ==
    /\ [](StepRaised => running)
    /\ [][(running /\ ~running') => trace'.op = "interrupt"]_vars
    /\ \A n \in 1..(MaxLoopCycles - 1) :
        (StepRaised /\ cycle_count = n) ~> (cycle_count = n + 1 \/ trace.op = "interrupt")

\* the memory write of the first cycle raised, and the second cycle ran with
\* a failing tray update
C12_Witness ==
    /\ cycle_count = 2
    /\ running
    /\ trace.op = "cycle"
    /\ trace.last = NoSuggestion
    /\ trace.body.caught = << "tray" >>
(***************************************************************************)
(* Properties of the feedback match (SpecMatch)                            *)
(***************************************************************************)
\* the normalized current app and the normalized suggested app of the call
NormalizedCurrent == normalize_app_name(extract_app_name(trace.window))

NormalizedSuggested == normalize_app_name(trace.app_name)

\* more than 80% of the positions of the longer name hold the same character
\* in both names, and both names have more than 3 characters
FuzzyRule(c, s) ==
    /\ Len(c) > 3 /\ Len(s) > 3
    /\ 5 * Cardinality({i \in 1..Min({Len(c), Len(s)}) : Ch(c, i) = Ch(s, i)})
          > 4 * Max({Len(c), Len(s)})

\* C14 as stated: the suggestion is labelled followed if and only if the
\* names are equal, or one is a substring of the other, or the fuzzy rule
\* holds; otherwise it is labelled ignored.
C14_AsStated ==
    trace.op = "record_feedback" =>
        /\ trace.res.outcome \in {"followed", "ignored"}
        /\ trace.res.outcome = "followed" <=>
              \/ NormalizedCurrent = NormalizedSuggested
              \/ Contains(NormalizedCurrent, NormalizedSuggested)
              \/ Contains(NormalizedSuggested, NormalizedCurrent)
              \/ FuzzyRule(NormalizedCurrent, NormalizedSuggested)

\* C14: the suggestion is labelled followed if and only if the names are
\* equal, or both are non-empty and one is a substring of the other, or the
\* fuzzy rule holds; otherwise it is labelled ignored.
C14_FollowedIff ==
    trace.op = "record_feedback" =>
        /\ trace.res.outcome \in {"followed", "ignored"}
        /\ trace.res.outcome = "followed" <=>
              \/ NormalizedCurrent = NormalizedSuggested
              \/ /\ NormalizedCurrent # "" /\ NormalizedSuggested # ""
                 /\ \/ Contains(NormalizedCurrent, NormalizedSuggested)
                    \/ Contains(NormalizedSuggested, NormalizedCurrent)
              \/ FuzzyRule(NormalizedCurrent, NormalizedSuggested)

\* a suggestion was labelled followed by the fuzzy rule alone
C14_Witness ==
    /\ trace.op = "record_feedback"
    /\ trace.res.outcome = "followed"
    /\ NormalizedCurrent # NormalizedSuggested
    /\ ~Contains(NormalizedCurrent, NormalizedSuggested)
    /\ ~Contains(NormalizedSuggested, NormalizedCurrent)

\* C15: with "visual studio code" and "vscode" as suggested and observed
\* app, in either role, the suggestion is labelled followed because one name
\* is a substring of the other; with "chrome" and "firefox" it is labelled
\* ignored.
C15_VscodeFollowedFirefoxIgnored ==
    trace.op = "record_feedback" =>
        /\ {NormalizedCurrent, NormalizedSuggested} = {"visual studio code", "vscode"}
              => /\ trace.res.outcome = "followed"
                 /\ \/ Contains(NormalizedCurrent, NormalizedSuggested)
                    \/ Contains(NormalizedSuggested, NormalizedCurrent)
        /\ {NormalizedCurrent, NormalizedSuggested} = {"chrome", "firefox"}
              => trace.res.outcome = "ignored"
(***************************************************************************)
(* Properties of the functions without state (SpecPure)                    *)
(***************************************************************************)
\* C16: normalize_app_name is idempotent: normalizing its result again gives
\* the same result.
C16_NormalizeIdempotent ==
    trace.op = "normalize_app_name" => normalize_app_name(trace.ret) = trace.ret

\* a name with stacked extensions was normalized, and the result differs
\* from the name
C16_Witness ==
    /\ trace.op = "normalize_app_name"
    /\ trace.app_name = "a.py.json"
    /\ trace.ret = "apy"

MatchingRules ==
    LET text == trace.suggestion
    IN  (IF shortcut_match(lower(text)) # "" THEN {1} ELSE {})
        \cup (IF app_file_match(text) # "" THEN {2} ELSE {})
        \cup (IF app_pattern_match(lower(text)).found THEN {3} ELSE {})
        \cup (IF non_actionable(lower(text)) THEN {4} ELSE {})
        \cup (IF ml_suggestion_match(text).found THEN {5} ELSE {})
        \cup (IF website_match(lower(text)) # "" THEN {6} ELSE {})

\* the type each rule gives
RuleTypes ==
    << "keyboard_shortcut", "open_app", "open_app", "show_tip", "open_app", "open_website" >>

\* C18: extract_action_from_suggestion returns the type of the earliest rule
\* the text matches, and type None with target None for a text that matches
\* no rule.
C18_EarliestRuleDecides ==
    trace.op = "extract_action" =>
        /\ ~trace.ret.raised
        /\ MatchingRules # {} => trace.ret.type = RuleTypes[Min(MatchingRules)]
        /\ MatchingRules = {} => trace.ret.type = "none" /\ trace.ret.target = NoneStr

\* C19: the three examples give open_app "visual studio code",
\* keyboard_shortcut "ctrl+shift+p" and open_website "github.com"; an
\* open_app target taken after a verb holds no words of the rest of the
\* sentence.
C19_Examples ==
    trace.op = "extract_action" =>
        /\ trace.suggestion = "Switch to Visual Studio Code to continue your project."
              => trace.ret = ActionInfo("open_app", Str("visual studio code"))
        /\ trace.suggestion = "Try pressing ctrl+shift+p for the command palette."
              => trace.ret = ActionInfo("keyboard_shortcut", Str("ctrl+shift+p"))
        /\ trace.suggestion = "You often visit github.com after coding."
              => trace.ret = ActionInfo("open_website", Str("github.com"))
        /\ trace.suggestion = "Open chrome to check your mail"
              => trace.ret = ActionInfo("open_app", Str("chrome"))
\* C28: extract_action_from_suggestion raises for no text, the texts that
\* match only "open it now?" or "ready to switch?" and the texts whose verb
\* is followed by a bare pronoun included: it returns a dict with a type
\* (None or one of the four action types) and a target.
C28_ExtractorNeverRaises ==
    trace.op = "extract_action" =>
        /\ ~trace.ret.raised
        /\ trace.ret.type \in {"none", "keyboard_shortcut", "open_app", "show_tip", "open_website"}
        /\ trace.ret.type = "none" <=> trace.ret.target = NoneStr

\* C20: execute_action never raises; a keyboard_shortcut or show_tip action
\* launches nothing and gives info_only with success false; an open_app or
\* open_website action gives no info_only, and success exactly when
\* something was launched; a missing or None type gives a failure without
\* info_only.
C20_ExecutorNeverRaises ==
    trace.op = "execute_action" =>
        /\ ~trace.ret.raised
        /\ trace.action_info.type \in {Str("keyboard_shortcut"), Str("show_tip")}
              => trace.ret.info_only /\ ~trace.ret.success /\ trace.ret.launched = 0
        /\ trace.action_info.type \in {Str("open_app"), Str("open_website")}
              => ~trace.ret.info_only /\ (trace.ret.success <=> trace.ret.launched = 1)
        /\ (~trace.action_info.dict \/ ~Truthy(trace.action_info.type))
              => ~trace.ret.success /\ ~trace.ret.info_only
====
